---- MODULE Spec2Model ----
(***************************************************************************)
(* Model of fbx_core/utils/rate_limiter.py: TokenBucket, CircuitBreaker,   *)
(* RateLimitStats and RateLimiter.execute run by concurrent threads.       *)
(*                                                                         *)
(* Time is a single clock `now` counted in ticks; time.monotonic() and     *)
(* datetime.now() both read it.  Token balances are floats in the source;  *)
(* here they are exact multiples of 1/TokenScale token, and the bucket's   *)
(* rate is the number of such units added per tick.  A wait time           *)
(* needed/rate is kept as its numerator `needed`; a sleep of that length   *)
(* started at `from` is over once (now - from) * rate >= needed.           *)
(*                                                                         *)
(* Also modelled: fbx_core/middleware/rate_limit.py, the in-memory         *)
(* sliding-window limiter and RateLimitMiddleware.dispatch.  There         *)
(* time.time() reads the same clock, a tick being 1/Hz second.             *)
(***************************************************************************)
EXTENDS Integers, Sequences, FiniteSets, TLC

\* ---------------------------------------------------------------- bounds
NumThreads == 2
MaxExecutes == 2
MaxTime == 2
MaxRetries == 1
MaxThreshold == 3
MaxHalfOpenCalls == 2
MaxBurst == 3
MaxRate == 3
MaxRecovery == 2
MaxFailureCount == 4
MaxConsume == 2
TokenScale == 2
MaxResets == 1
MaxSoloTime == 16
MaxSoloCalls == 3
MaxGateTime == 7
MaxGateCalls == 4
MaxGateRetries == 3
Hz == 2
MaxWebTime == 3
MaxWebCalls == 3
MaxRequests == 2
MaxWindow == 2
MaxLateCalls == 3

Threads == 1..NumThreads

Min(a, b) == IF a <= b THEN a ELSE b

None == -1

\* ------------------------------------------------------- CircuitState
CLOSED == "closed"
OPEN == "open"
HALF_OPEN == "half_open"

\* ------------------------------------------------------ RateLimitConfig
\* rate (requests_per_second): token units per tick; initial_backoff,
\* max_backoff and recovery_timeout: ticks.
DefaultConfig ==
    [ rate |-> 1, burst_size |-> 1, max_retries |-> 1,
      initial_backoff |-> 1, max_backoff |-> 2, backoff_multiplier |-> 2,
      failure_threshold |-> 2, recovery_timeout |-> 1,
      half_open_max_calls |-> 1 ]

\* The values limiter configurations are built from: (rate, burst_size)
\* pairs, a small burst refilled fast and a larger one refilled slowly,
\* and failure thresholds.
BucketShapes == { <<2, 1>>, <<1, 2>> }
Thresholds == {1, 2}

\* The configurations a limiter is run with.
LimiterConfigs ==
    { [ DefaultConfig EXCEPT !.rate = s[1], !.burst_size = s[2],
                             !.max_retries = m, !.failure_threshold = f ] :
        s \in BucketShapes, m \in {0, MaxRetries}, f \in Thresholds }

\* Two configurations of the test suite, a tick being half a second:
\* RateLimitConfig() with every default (10 requests per second, burst 20,
\* 3 retries, backoff 1 s doubling up to 60 s, threshold 5, recovery 60 s,
\* 3 half-open calls), and the same with requests_per_second = 2.0 and
\* burst_size = 2.
StatsTestConfig ==
    [ rate |-> 5 * TokenScale, burst_size |-> 20, max_retries |-> 3,
      initial_backoff |-> 2, max_backoff |-> 120, backoff_multiplier |-> 2,
      failure_threshold |-> 5, recovery_timeout |-> 120,
      half_open_max_calls |-> 3 ]

RateTestConfig ==
    [ StatsTestConfig EXCEPT !.rate = TokenScale, !.burst_size = 2 ]

SoloConfigs == { StatsTestConfig, RateTestConfig }

\* The configurations of the breaker scenario, a tick being ten seconds:
\* failure_threshold = 3, recovery_timeout = 60 s, any number of retries up
\* to the default 3, backoff sleeps far shorter than a tick, and the two
\* bucket shapes.
GateConfigs ==
    { [ DefaultConfig EXCEPT !.rate = s[1], !.burst_size = s[2],
                             !.max_retries = m, !.initial_backoff = 0,
                             !.max_backoff = 6, !.failure_threshold = 3,
                             !.recovery_timeout = 6,
                             !.half_open_max_calls = 3 ] :
        s \in BucketShapes, m \in 0..MaxGateRetries }

\* The configurations of the backoff schedule: one token per tick, up to
\* the default 3 retries, a backoff of one tick that stays or doubles,
\* capped at two ticks.
BackoffConfigs ==
    { [ DefaultConfig EXCEPT !.rate = TokenScale, !.max_retries = m,
                             !.backoff_multiplier = k ] :
        m \in 0..MaxGateRetries, k \in {1, 2} }

\* The configurations a breaker is driven with on its own.
BreakerConfigs ==
    { [ DefaultConfig EXCEPT !.failure_threshold = f, !.recovery_timeout = rt,
                             !.half_open_max_calls = h ] :
        f \in 1..MaxThreshold, rt \in 0..MaxRecovery,
        h \in 1..MaxHalfOpenCalls }

\* The rates and capacities a bucket is driven with on its own.
BucketConfigs ==
    { [ DefaultConfig EXCEPT !.rate = r, !.burst_size = b ] :
        r \in 1..MaxRate, b \in 1..MaxBurst }

VARIABLES
    config,           \* RateLimitConfig of the limiter
    now,              \* the clock
    token_bucket,     \* TokenBucket fields
    circuit_breaker,  \* CircuitBreaker fields
    stats,            \* RateLimitStats fields
    pc,               \* per thread: position inside execute
    frame,            \* per thread: execute's local variables
    calls,            \* per thread: history of the current execute call
    totals,           \* history: work() invocations, tokens granted
    breaker_log,      \* history of the breaker's operations
    driver,           \* last direct call on a component and what it returned
    default_config,   \* RateLimitMiddleware.default_config
    limiter,          \* InMemoryRateLimiter.requests of the middleware
    served,           \* history: per key, the times of its admitted requests
    response,         \* the last request dispatched and the answer it got
    locks             \* who holds the bucket's, the breaker's and the stats lock

\* The middleware's variables.
web == << default_config, limiter, served, response >>

vars == << config, now, token_bucket, circuit_breaker, stats, pc, frame,
           calls, totals, breaker_log, driver, web, locks >>

\* ---------------------------------------------------------- TokenBucket
NewTokenBucket(rate, capacity, t) ==
    [ rate |-> rate, capacity |-> capacity,
      tokens |-> capacity * TokenScale, last_update |-> t ]

\* The balance a consume at time t starts from (the refill, line 95).
Refilled(b, t) ==
    Min(b.capacity * TokenScale, b.tokens + (t - b.last_update) * b.rate)

\* consume that admits without subtracting.
consume_without_subtract(b, n, t) ==
    LET refilled == Refilled(b, t)
    IN  IF refilled >= n * TokenScale
        THEN [ allowed |-> TRUE, needed |-> 0,
               tb |-> [b EXCEPT !.tokens = refilled, !.last_update = t] ]
        ELSE [ allowed |-> FALSE, needed |-> n * TokenScale - refilled,
               tb |-> [b EXCEPT !.tokens = refilled, !.last_update = t] ]

\* consume that takes what is there when it refuses.
consume_draining(b, n, t) ==
    LET refilled == Refilled(b, t)
    IN  IF refilled >= n * TokenScale
        THEN [ allowed |-> TRUE, needed |-> 0,
               tb |-> [b EXCEPT !.tokens = refilled - n * TokenScale,
                                !.last_update = t] ]
        ELSE [ allowed |-> FALSE, needed |-> n * TokenScale - refilled,
               tb |-> [b EXCEPT !.tokens = 0, !.last_update = t] ]

\* consume that forgets last_update = now.
consume_stale_clock(b, n, t) ==
    LET refilled == Refilled(b, t)
    IN  IF refilled >= n * TokenScale
        THEN [ allowed |-> TRUE, needed |-> 0,
               tb |-> [b EXCEPT !.tokens = refilled - n * TokenScale] ]
        ELSE [ allowed |-> FALSE, needed |-> n * TokenScale - refilled,
               tb |-> [b EXCEPT !.tokens = refilled] ]

\* consume without the min(capacity, ...) of the refill.
consume_uncapped(b, n, t) ==
    LET elapsed == t - b.last_update
        refilled == b.tokens + elapsed * b.rate
    IN  IF refilled >= n * TokenScale
        THEN [ allowed |-> TRUE, needed |-> 0,
               tb |-> [b EXCEPT !.tokens = refilled - n * TokenScale,
                                !.last_update = t] ]
        ELSE [ allowed |-> FALSE, needed |-> n * TokenScale - refilled,
               tb |-> [b EXCEPT !.tokens = refilled, !.last_update = t] ]

\* TokenBucket.consume(tokens=n) at time t: the result and the bucket after.
consume(b, n, t) ==
    LET elapsed == t - b.last_update
        refilled == Min(b.capacity * TokenScale, b.tokens + elapsed * b.rate)
    IN  IF refilled >= n * TokenScale
        THEN [ allowed |-> TRUE, needed |-> 0,
               tb |-> [b EXCEPT !.tokens = refilled - n * TokenScale,
                                !.last_update = t] ]
        ELSE [ allowed |-> FALSE, needed |-> n * TokenScale - refilled,
               tb |-> [b EXCEPT !.tokens = refilled, !.last_update = t] ]

\* SleepOver of a sleep that returns at once.
SleepOverAtOnce(from, needed, rate, t) == t >= from

\* time.sleep(needed / rate) started at `from` has returned by time t.
SleepOver(from, needed, rate, t) == (t - from) * rate >= needed

\* -------------------------------------------------------- CircuitBreaker
NewCircuitBreaker ==
    [ state |-> CLOSED, failure_count |-> 0,
      last_failure_time |-> None, half_open_calls |-> 0 ]

\* _transition_to that forgets to clear half_open_calls on closing.
transition_to_keeping_calls(b, new_state) ==
    IF new_state = HALF_OPEN
    THEN [b EXCEPT !.state = new_state, !.half_open_calls = 0]
    ELSE IF new_state = CLOSED
    THEN [b EXCEPT !.state = new_state, !.failure_count = 0]
    ELSE [b EXCEPT !.state = new_state]

transition_to(b, new_state) ==
    IF new_state = HALF_OPEN
    THEN [b EXCEPT !.state = new_state, !.half_open_calls = 0]
    ELSE IF new_state = CLOSED
    THEN [b EXCEPT !.state = new_state, !.failure_count = 0,
                   !.half_open_calls = 0]
    ELSE [b EXCEPT !.state = new_state]

\* call_allowed that lets every call through.
call_allowed_open_door(b, cfg, t) == [ ret |-> TRUE, cb |-> b ]

\* call_allowed that wants strictly more than recovery_timeout to have passed.
call_allowed_late(b, cfg, t) ==
    IF b.state = CLOSED
    THEN [ ret |-> TRUE, cb |-> b ]
    ELSE IF b.state = OPEN
    THEN IF b.last_failure_time # None
            /\ t - b.last_failure_time > cfg.recovery_timeout
         THEN [ ret |-> TRUE, cb |-> [b EXCEPT !.state = HALF_OPEN,
                                               !.half_open_calls = 0] ]
         ELSE [ ret |-> FALSE, cb |-> b ]
    ELSE IF b.state = HALF_OPEN
    THEN IF b.half_open_calls < cfg.half_open_max_calls
         THEN [ ret |-> TRUE,
                cb |-> [b EXCEPT !.half_open_calls = b.half_open_calls + 1] ]
         ELSE [ ret |-> FALSE, cb |-> b ]
    ELSE [ ret |-> FALSE, cb |-> b ]

\* call_allowed that counts the half-open calls it refuses as well.
call_allowed_counting_refusals(b, cfg, t) ==
    IF b.state = CLOSED
    THEN [ ret |-> TRUE, cb |-> b ]
    ELSE IF b.state = OPEN
    THEN IF b.last_failure_time # None
            /\ t - b.last_failure_time >= cfg.recovery_timeout
         THEN [ ret |-> TRUE, cb |-> transition_to(b, HALF_OPEN) ]
         ELSE [ ret |-> FALSE, cb |-> b ]
    ELSE IF b.state = HALF_OPEN
    THEN [ ret |-> b.half_open_calls < cfg.half_open_max_calls,
           cb |-> [b EXCEPT !.half_open_calls = b.half_open_calls + 1] ]
    ELSE [ ret |-> FALSE, cb |-> b ]

call_allowed(b, cfg, t) ==
    IF b.state = CLOSED
    THEN [ ret |-> TRUE, cb |-> b ]
    ELSE IF b.state = OPEN
    THEN IF b.last_failure_time # None
            /\ t - b.last_failure_time >= cfg.recovery_timeout
         THEN [ ret |-> TRUE, cb |-> transition_to(b, HALF_OPEN) ]
         ELSE [ ret |-> FALSE, cb |-> b ]
    ELSE IF b.state = HALF_OPEN
    THEN IF b.half_open_calls < cfg.half_open_max_calls
         THEN [ ret |-> TRUE,
                cb |-> [b EXCEPT !.half_open_calls = b.half_open_calls + 1] ]
         ELSE [ ret |-> FALSE, cb |-> b ]
    ELSE [ ret |-> FALSE, cb |-> b ]

\* record_success that clears the count and leaves the state as it is.
record_success_count_only(b) == [b EXCEPT !.failure_count = 0]

\* record_success that closes the breaker whatever its state.
record_success_closing(b) ==
    [b EXCEPT !.state = CLOSED, !.failure_count = 0, !.half_open_calls = 0]

\* record_success that closes a Half-Open breaker with its failures kept.
record_success_keeping_count(b) ==
    IF b.state = HALF_OPEN
    THEN [b EXCEPT !.state = CLOSED, !.half_open_calls = 0]
    ELSE [b EXCEPT !.failure_count = 0]

record_success(b) ==
    LET b1 == IF b.state = HALF_OPEN THEN transition_to(b, CLOSED) ELSE b
    IN  [b1 EXCEPT !.failure_count = 0]

\* record_failure that leaves last_failure_time alone once the breaker is
\* Open.
record_failure_keeping_time(b, cfg, t) ==
    LET b1 == [b EXCEPT !.failure_count = b.failure_count + 1,
                        !.last_failure_time =
                            IF b.state = OPEN THEN @ ELSE t]
    IN  IF b1.state = HALF_OPEN
        THEN [b1 EXCEPT !.state = OPEN]
        ELSE IF b1.failure_count >= cfg.failure_threshold
        THEN [b1 EXCEPT !.state = OPEN]
        ELSE b1

\* record_failure that opens only above the threshold.
record_failure_strict(b, cfg, t) ==
    LET b1 == [b EXCEPT !.failure_count = b.failure_count + 1,
                        !.last_failure_time = t]
    IN  IF b1.state = HALF_OPEN
        THEN [b1 EXCEPT !.state = OPEN]
        ELSE IF b1.failure_count > cfg.failure_threshold
        THEN [b1 EXCEPT !.state = OPEN]
        ELSE b1

\* record_failure without the half-open branch.
record_failure_threshold_only(b, cfg, t) ==
    LET b1 == [b EXCEPT !.failure_count = b.failure_count + 1,
                        !.last_failure_time = t]
    IN  IF b1.failure_count >= cfg.failure_threshold
        THEN [b1 EXCEPT !.state = OPEN]
        ELSE b1

record_failure(b, cfg, t) ==
    LET b1 == [b EXCEPT !.failure_count = b.failure_count + 1,
                        !.last_failure_time = t]
    IN  IF b1.state = HALF_OPEN
        THEN transition_to(b1, OPEN)
        ELSE IF b1.failure_count >= cfg.failure_threshold
        THEN transition_to(b1, OPEN)
        ELSE b1

\* -------------------------------------------------------- RateLimitStats
NewStats ==
    [ total_requests |-> 0, successful_requests |-> 0, failed_requests |-> 0,
      rate_limited_requests |-> 0, circuit_breaker_rejections |-> 0,
      total_retry_attempts |-> 0,
      last_request_time |-> None, last_failure_time |-> None ]

\* RateLimitStats.success_rate(), a float in the source: here the exact
\* quotient as the pair << numerator, denominator >>, 0.0 being << 0, 1 >>.
success_rate(s) ==
    IF s.total_requests = 0
    THEN << 0, 1 >>
    ELSE << s.successful_requests, s.total_requests >>

\* f"{rate:.2%}": the rate as a percentage rounded to two decimals, here
\* the number of hundredths of a percent ("50.00%" is 5000).  Rounding is
\* to the nearest; a quotient exactly halfway needs a denominator that is
\* a multiple of 32.
percent(r) == (2 * 10000 * r[1] + r[2]) \div (2 * r[2])

\* datetime.isoformat() if the time is set, else None: a string.
isoformat(t) == IF t = None THEN "None" ELSE ToString(t)

\* The dictionary that RateLimiter.get_stats() returns.
get_stats(s, cb) ==
    [ total_requests |-> s.total_requests,
      successful_requests |-> s.successful_requests,
      failed_requests |-> s.failed_requests,
      success_rate |-> percent(success_rate(s)),
      rate_limited_requests |-> s.rate_limited_requests,
      circuit_breaker_rejections |-> s.circuit_breaker_rejections,
      total_retry_attempts |-> s.total_retry_attempts,
      circuit_state |-> cb.state,
      last_request_time |-> isoformat(s.last_request_time),
      last_failure_time |-> isoformat(s.last_failure_time) ]

\* ------------------------------------------------------------ histories
\* consecutive: record_failure() calls since creation or the last
\*   record_success(); admitted: call_allowed() checks that returned true
\*   in the current half-open episode (the one that opened it included).
NewBreakerLog == [ consecutive |-> 0, admitted |-> 0 ]

LogCallAllowed(log, b, r) ==
    [ log EXCEPT
        !.admitted = IF b.state = OPEN /\ r.cb.state = HALF_OPEN THEN 1
                     ELSE IF b.state = HALF_OPEN /\ r.ret THEN log.admitted + 1
                     ELSE log.admitted ]

LogRecordSuccess(log, b) ==
    [ log EXCEPT !.consecutive = 0,
                 !.admitted = IF b.state = HALF_OPEN THEN 0 ELSE log.admitted ]

LogRecordFailure(log, b) ==
    [ log EXCEPT !.consecutive = log.consecutive + 1,
                 !.admitted = IF b.state = HALF_OPEN THEN 0 ELSE log.admitted ]

\* work_started: invocations of func; granted: tokens handed out by
\*   consume; instant_tokens: the balance a consume would have started from
\*   when the clock last moved; admitted: tokens handed out since then;
\*   resets: reset_stats() calls; rejected: calls rejected at the gate.
NewTotals(b) ==
    [ work_started |-> 0, granted |-> 0,
      instant_tokens |-> b.tokens, admitted |-> 0, resets |-> 0,
      rejected |-> 0 ]

LogConsume(tot, n, r) ==
    [ tot EXCEPT !.granted = @ + (IF r.allowed THEN n ELSE 0),
                 !.admitted = @ + (IF r.allowed THEN n ELSE 0) ]

LogTick(tot, b, t) ==
    [ tot EXCEPT !.instant_tokens = Refilled(b, t), !.admitted = 0 ]

NewFrame ==
    [ retry_count |-> 0, backoff |-> 0, needed |-> 0, slept_from |-> 0,
      last_exception |-> 0 ]

\* executes: calls this thread has begun; of the current (or last) call:
\*   work: invocations of func; retry_incs, fail_incs, succ_incs: its
\*   increments of total_retry_attempts, failed_requests and
\*   successful_requests; cb_successes, cb_failures: its record_success()
\*   and record_failure() calls; backoffs: its backoff sleeps; refusals:
\*   the times its consume after the sleep was refused; outcome: how it
\*   ended; raised: which invocation's error it raised (0: none of them).
NewCall ==
    [ executes |-> 0, work |-> 0, retry_incs |-> 0, fail_incs |-> 0,
      succ_incs |-> 0, cb_successes |-> 0, cb_failures |-> 0,
      refusals |-> 0, backoffs |-> 0, outcome |-> "none", raised |-> 0 ]

\* The last direct call on a component: its name, argument, the time it was
\* made at, what it returned, and the bucket and breaker it found; for
\* get_stats(), the dictionary it returned; for execute of a caller that
\* makes one call after the other, the time since its previous call ended.
NewDriver ==
    [ op |-> "none", n |-> 0, at |-> 0, allowed |-> FALSE, needed |-> 0,
      tb |-> NewTokenBucket(1, 1, 0), cb |-> NewCircuitBreaker,
      stats |-> get_stats(NewStats, NewCircuitBreaker), gap |-> 0 ]

\* ------------------------------------------ middleware/rate_limit.py
\* RateLimitConfig of the middleware: requests allowed per window of
\* `window` whole seconds.
WebConfig(requests, window) ==
    [ requests |-> requests, window |-> window, key_prefix |-> "rate_limit" ]

\* The default_config of a middleware built without one.
DefaultWebConfig == WebConfig(100, 60)

\* The default configurations a middleware is run with: one request per
\* second, one per longer window, and several per second.
MiddlewareConfigs ==
    { WebConfig(1, 1), WebConfig(1, MaxWindow), WebConfig(MaxRequests, 1) }

\* RateLimitMiddleware.endpoint_configs, in dictionary order.
endpoint_configs ==
    << << "/api/v1/bills/search", WebConfig(30, 60) >>,
       << "/api/v1/admin", WebConfig(10, 60) >> >>

HealthPaths == { "/health", "/healthz", "/monitoring/health" }

\* The paths requested, and what may follow an endpoint prefix in them.
WebPaths == HealthPaths \cup { "/test", "/api/v1/admin/users" }
PathTails == { "", "/users" }

\* str.startswith over the paths requested.
startswith(path, prefix) == \E tail \in PathTails : path = prefix \o tail

\* The requests dispatched.  forwarded is the X-Forwarded-For header as
\* the list of its comma-separated entries, << >> when the header is
\* absent; client is << host >>, or << >> when request.client is None.
\* "/test" is asked for by a direct client, by one behind a proxy and by
\* one without an address, the other paths by the direct client.
WebRequests ==
    [ method : { "GET" }, path : WebPaths,
      forwarded : { << >> }, client : { << "10.0.0.1" >> } ]
    \cup [ method : { "GET" }, path : { "/test" },
           forwarded : { << "10.0.0.2", "10.0.0.1" >> },
           client : { << "10.0.0.1" >> } ]
    \cup [ method : { "GET" }, path : { "/test" },
           forwarded : { << >> }, client : { << >> } ]

\* What the application behind the middleware answers with.
AppStatuses == { 200, 404 }

\* int() of a time given in ticks: whole seconds, truncated towards zero.
int(q) == IF q >= 0 THEN q \div Hz ELSE -((-q) \div Hz)

\* The smallest element of a non-empty sequence.
min(seq) == CHOOSE x \in { seq[i] : i \in DOMAIN seq } :
                \A i \in DOMAIN seq : x <= seq[i]

\* self.requests[key] of the defaultdict(list).
Recorded(requests, key) ==
    IF key \in DOMAIN requests THEN requests[key] ELSE << >>

\* is_rate_limited that keeps requests made exactly `window` ago.
is_rate_limited_keeping_edge(requests, key, max_requests, window, t) ==
    LET cutoff == t - window * Hz
        kept == SelectSeq(Recorded(requests, key), LAMBDA r : r >= cutoff)
        cleaned == [ k \in DOMAIN requests \cup {key} |->
                       IF k = key THEN kept ELSE requests[k] ]
        current_count == Len(kept)
        oldest_request == IF kept # << >> THEN min(kept) ELSE t
    IN  IF current_count >= max_requests
        THEN [ limited |-> TRUE, requests |-> cleaned,
               info |-> [ limit |-> max_requests, remaining |-> 0,
                          reset |-> int(oldest_request + window * Hz),
                          retry_after |->
                              int(oldest_request + window * Hz - t) + 1 ] ]
        ELSE [ limited |-> FALSE,
               requests |-> [cleaned EXCEPT ![key] = Append(@, t)],
               info |-> [ limit |-> max_requests,
                          remaining |-> max_requests - current_count - 1,
                          reset |-> int(t + window * Hz),
                          retry_after |-> 0 ] ]

\* InMemoryRateLimiter.is_rate_limited(key, max_requests, window) called
\* at time t on the dictionary `requests`: the dictionary it leaves, and
\* the pair (is_limited, info) it returns.
is_rate_limited(requests, key, max_requests, window, t) ==
    LET cutoff == t - window * Hz
        kept == SelectSeq(Recorded(requests, key), LAMBDA r : r > cutoff)
        cleaned == [ k \in DOMAIN requests \cup {key} |->
                       IF k = key THEN kept ELSE requests[k] ]
        current_count == Len(kept)
        oldest_request == IF kept # << >> THEN min(kept) ELSE t
    IN  IF current_count >= max_requests
        THEN [ limited |-> TRUE, requests |-> cleaned,
               info |-> [ limit |-> max_requests, remaining |-> 0,
                          reset |-> int(oldest_request + window * Hz),
                          retry_after |->
                              int(oldest_request + window * Hz - t) + 1 ] ]
        ELSE [ limited |-> FALSE,
               requests |-> [cleaned EXCEPT ![key] = Append(@, t)],
               info |-> [ limit |-> max_requests,
                          remaining |-> max_requests - current_count - 1,
                          reset |-> int(t + window * Hz),
                          retry_after |-> 0 ] ]

\* RateLimitMiddleware.get_client_identifier.
get_client_identifier(request) ==
    IF request.forwarded # << >> THEN request.forwarded[1]
    ELSE IF request.client # << >> THEN request.client[1]
    ELSE "unknown"

\* RateLimitMiddleware.get_rate_limit_config: the first endpoint
\* configuration whose path the request's path starts with.
get_rate_limit_config(default, request) ==
    LET hits == { i \in DOMAIN endpoint_configs :
                    startswith(request.path, endpoint_configs[i][1]) }
    IN  IF hits = {} THEN default
        ELSE endpoint_configs[CHOOSE i \in hits : \A j \in hits : i <= j][2]

\* rate_limit_key that leaves the path out.
rate_limit_key_without_path(cfg, request) ==
    cfg.key_prefix \o ":" \o request.method \o ":"
        \o get_client_identifier(request)

\* The rate limit key dispatch builds.
rate_limit_key(cfg, request) ==
    cfg.key_prefix \o ":" \o request.method \o ":" \o request.path \o ":"
        \o get_client_identifier(request)

\* dispatch without the health check exemption.
dispatch_limiting_health(default, requests, request, t, app_status) ==
    LET cfg == get_rate_limit_config(default, request)
        key == rate_limit_key(cfg, request)
        r == is_rate_limited(requests, key, cfg.requests, cfg.window, t)
    IN  [ requests |-> r.requests, checked |-> TRUE, key |-> key,
          limited |-> r.limited, info |-> r.info,
          status |-> IF r.limited THEN 429 ELSE app_status ]

\* RateLimitMiddleware.dispatch(request, call_next) at time t, the
\* application answering with app_status: the limiter's dictionary it
\* leaves, whether it asked the limiter and under which key, and the
\* status and rate limit headers of its answer.  is_rate_limited has no
\* await in it, so the check and the recording are one step; the answer
\* depends on nothing read after them.
dispatch(default, requests, request, t, app_status) ==
    IF request.path \in HealthPaths
    THEN [ requests |-> requests, checked |-> FALSE, key |-> "",
           limited |-> FALSE, info |-> [ limit |-> 0, remaining |-> 0,
                                         reset |-> 0, retry_after |-> 0 ],
           status |-> app_status ]
    ELSE LET cfg == get_rate_limit_config(default, request)
             key == rate_limit_key(cfg, request)
             r == is_rate_limited(requests, key, cfg.requests, cfg.window, t)
         IN  [ requests |-> r.requests, checked |-> TRUE, key |-> key,
               limited |-> r.limited, info |-> r.info,
               status |-> IF r.limited THEN 429 ELSE app_status ]

\* The info of an answer the limiter was not asked about.
NoInfo == [ limit |-> 0, remaining |-> 0, reset |-> 0, retry_after |-> 0 ]

\* Before the first request: n counts the requests dispatched.
NoResponse ==
    [ n |-> 0,
      request |-> [ method |-> "GET", path |-> "/health",
                    forwarded |-> << >>, client |-> << >> ],
      checked |-> FALSE, key |-> "", limited |-> FALSE, info |-> NoInfo,
      status |-> 200 ]

\* ---------------------------------------------------------------- locks
\* TokenBucket.lock, CircuitBreaker.lock and RateLimiter.lock.
Locks == { "token_bucket", "circuit_breaker", "stats" }

\* The thread that calls get_stats() and reset_stats().
Other == NumThreads + 1

\* A lock nobody holds; a held lock names its holder (by), the `with`
\* block it was taken for (at: the holder's position in execute, or the
\* method called from outside) and, for reset_stats, the number of resets
\* done before it.
Free == [ by |-> 0, at |-> "", stamp |-> 0 ]

NoLocks == [ l \in Locks |-> Free ]

\* ----------------------------------------------------------------- Init
\* RateLimiter.__init__ at time 0 with one of the configurations cfgs, and
\* RateLimitMiddleware.__init__ without Redis with one of the default
\* configurations defaults.
Construct(cfgs, defaults) ==
    /\ default_config \in defaults
    /\ limiter = << >>
    /\ served = << >>
    /\ response = NoResponse
    /\ locks = NoLocks
    /\ config \in cfgs
    /\ now = 0
    /\ token_bucket = NewTokenBucket(config.rate, config.burst_size, 0)
    /\ circuit_breaker = NewCircuitBreaker
    /\ stats = NewStats
    /\ pc = [t \in Threads |-> "idle"]
    /\ frame = [t \in Threads |-> NewFrame]
    /\ calls = [t \in Threads |-> NewCall]
    /\ totals = NewTotals(token_bucket)
    /\ breaker_log = NewBreakerLog
    /\ driver = NewDriver

\* A limiter on its own.
Boot(cfgs) == Construct(cfgs, {DefaultWebConfig})

\* The clock advances, up to limit.
Advance(limit) ==
    /\ now < limit
    /\ now' = now + 1
    /\ totals' = LogTick(totals, token_bucket, now + 1)
    /\ UNCHANGED << locks, web, config, token_bucket, circuit_breaker, stats, pc, frame,
                    calls, breaker_log, driver >>

Tick == Advance(MaxTime)

\* ------------------------------------------- direct calls on a TokenBucket
\* bucket.consume(n) by a caller holding the bucket itself (as the tests do).
DriverConsume(n) ==
    LET r == consume(token_bucket, n, now)
    IN  /\ token_bucket' = r.tb
        /\ driver' = [ NewDriver EXCEPT !.op = "consume", !.n = n, !.at = now,
                                        !.allowed = r.allowed,
                                        !.needed = r.needed,
                                        !.tb = token_bucket ]
        /\ totals' = LogConsume(totals, n, r)
        /\ UNCHANGED << locks, web, config, now, circuit_breaker, stats, pc, frame, calls,
                        breaker_log >>

NextBucket ==
    \/ Tick
    \/ \E n \in 1..MaxConsume : DriverConsume(n)

InitBucket == Boot(BucketConfigs)

SpecBucket == InitBucket /\ [][NextBucket]_vars

\* ----------------------------------------- direct calls on a CircuitBreaker
DriverCallAllowed ==
    LET r == call_allowed(circuit_breaker, config, now)
    IN  /\ circuit_breaker' = r.cb
        /\ breaker_log' = LogCallAllowed(breaker_log, circuit_breaker, r)
        /\ driver' = [ NewDriver EXCEPT !.op = "call_allowed", !.at = now,
                                        !.allowed = r.ret,
                                        !.cb = circuit_breaker ]
        /\ UNCHANGED << locks, web, config, now, token_bucket, stats, pc, frame, calls,
                        totals >>

DriverRecordSuccess ==
    /\ circuit_breaker' = record_success(circuit_breaker)
    /\ breaker_log' = LogRecordSuccess(breaker_log, circuit_breaker)
    /\ driver' = [ NewDriver EXCEPT !.op = "record_success", !.at = now,
                                    !.cb = circuit_breaker ]
    /\ UNCHANGED << locks, web, config, now, token_bucket, stats, pc, frame, calls,
                    totals >>

DriverRecordFailure ==
    /\ circuit_breaker.failure_count < MaxFailureCount
    /\ circuit_breaker' = record_failure(circuit_breaker, config, now)
    /\ breaker_log' = LogRecordFailure(breaker_log, circuit_breaker)
    /\ driver' = [ NewDriver EXCEPT !.op = "record_failure", !.at = now,
                                    !.cb = circuit_breaker ]
    /\ UNCHANGED << locks, web, config, now, token_bucket, stats, pc, frame, calls,
                    totals >>

NextBreaker ==
    \/ Tick
    \/ DriverCallAllowed
    \/ DriverRecordSuccess
    \/ DriverRecordFailure

InitBreaker == Boot(BreakerConfigs)

SpecBreaker == InitBreaker /\ [][NextBreaker]_vars

\* ------------------------------------------------------ RateLimiter.execute
\* One action per critical section of execute, run by thread t.  `work`
\* counts the invocations of func by the current call; `retry_incs` counts
\* its increments of stats.total_retry_attempts.

RECURSIVE SumExecutes(_)
SumExecutes(n) == IF n = 0 THEN 0 ELSE calls[n].executes + SumExecutes(n - 1)

\* execute calls begun so far, by all threads.
Started == SumExecutes(NumThreads)

\* The call begins: circuit_breaker.call_allowed() under the breaker's lock.
Begin(t) ==
    LET r == call_allowed(circuit_breaker, config, now)
    IN  /\ pc[t] = "idle"
        /\ circuit_breaker' = r.cb
        /\ breaker_log' = LogCallAllowed(breaker_log, circuit_breaker, r)
        /\ calls' = [calls EXCEPT ![t] =
                        [ NewCall EXCEPT !.executes = calls[t].executes + 1,
                                         !.outcome = "running" ]]
        /\ frame' = [frame EXCEPT ![t] =
                        [ NewFrame EXCEPT !.backoff = config.initial_backoff ]]
        /\ pc' = [pc EXCEPT ![t] = IF r.ret THEN "loop" ELSE "reject"]
        /\ UNCHANGED << locks, web, config, now, token_bucket, stats, totals >>

\* Threads are interchangeable and a call keeps nothing of its thread's
\* earlier calls: a new call is run by the lowest-numbered idle thread.
Execute(t) ==
    /\ Started < MaxExecutes
    /\ \A u \in Threads : u < t => pc[u] # "idle"
    /\ Begin(t)
    /\ UNCHANGED driver

\* Reject that also books the rejection as a failed request.
RejectCountingFailure(t) ==
    /\ pc[t] = "reject"
    /\ stats' = [stats EXCEPT !.circuit_breaker_rejections = @ + 1,
                              !.failed_requests = @ + 1]
    /\ calls' = [calls EXCEPT ![t].outcome = "rejected"]
    /\ totals' = [totals EXCEPT !.rejected = @ + 1]
    /\ frame' = [frame EXCEPT ![t] = NewFrame]
    /\ pc' = [pc EXCEPT ![t] = "idle"]
    /\ UNCHANGED << locks, web, config, now, token_bucket, circuit_breaker,
                    breaker_log, driver >>

\* The gate refused: count the rejection and raise.
Reject(t) ==
    /\ pc[t] = "reject"
    /\ stats' = [stats EXCEPT !.circuit_breaker_rejections = @ + 1]
    /\ calls' = [calls EXCEPT ![t].outcome = "rejected"]
    /\ totals' = [totals EXCEPT !.rejected = @ + 1]
    /\ frame' = [frame EXCEPT ![t] = NewFrame]
    /\ pc' = [pc EXCEPT ![t] = "idle"]
    /\ UNCHANGED << locks, web, config, now, token_bucket, circuit_breaker,
                    breaker_log, driver >>

\* Consume that asks the breaker again at the head of every iteration and
\* leaves the call rejected when it is refused.
ConsumeAskingGate(t) ==
    LET r == consume(token_bucket, 1, now)
        open == ~call_allowed(circuit_breaker, config, now).ret
    IN  /\ pc[t] = "loop"
        /\ frame[t].retry_count <= config.max_retries
        /\ token_bucket' = IF open THEN token_bucket ELSE r.tb
        /\ frame' = IF open THEN frame
                    ELSE [frame EXCEPT ![t].needed = r.needed]
        /\ totals' = IF open THEN totals ELSE LogConsume(totals, 1, r)
        /\ pc' = [pc EXCEPT ![t] = IF open THEN "reject"
                                   ELSE IF r.allowed THEN "request"
                                   ELSE "limited"]
        /\ UNCHANGED << locks, web, config, now, circuit_breaker, stats, calls,
                        breaker_log, driver >>

\* Loop test passed: token_bucket.consume() under the bucket's lock.
Consume(t) ==
    LET r == consume(token_bucket, 1, now)
    IN  /\ pc[t] = "loop"
        /\ frame[t].retry_count <= config.max_retries
        /\ token_bucket' = r.tb
        /\ frame' = [frame EXCEPT ![t].needed = r.needed]
        /\ totals' = LogConsume(totals, 1, r)
        /\ pc' = [pc EXCEPT ![t] = IF r.allowed THEN "request" ELSE "limited"]
        /\ UNCHANGED << locks, web, config, now, circuit_breaker, stats, calls,
                        breaker_log, driver >>

\* Not admitted: count the wait under the stats lock, then start sleeping.
Limited(t) ==
    /\ pc[t] = "limited"
    /\ stats' = [stats EXCEPT !.rate_limited_requests = @ + 1]
    /\ frame' = [frame EXCEPT ![t].slept_from = now]
    /\ pc' = [pc EXCEPT ![t] = "sleep"]
    /\ UNCHANGED << locks, web, config, now, token_bucket, circuit_breaker, calls, totals,
                    breaker_log, driver >>

\* ConsumeAgain that goes on to the request whatever the second consume said.
ConsumeAgainUnchecked(t) ==
    LET r == consume(token_bucket, 1, now)
    IN  /\ pc[t] = "sleep"
        /\ SleepOver(frame[t].slept_from, frame[t].needed, token_bucket.rate, now)
        /\ token_bucket' = r.tb
        /\ frame' = [frame EXCEPT ![t].needed = 0, ![t].slept_from = 0]
        /\ totals' = LogConsume(totals, 1, r)
        /\ pc' = [pc EXCEPT ![t] = "request"]
        /\ UNCHANGED << locks, web, config, now, circuit_breaker, stats, calls,
                        breaker_log, driver >>

\* ConsumeAgain that gives the call up when the second consume is refused.
ConsumeAgainRaising(t) ==
    LET r == consume(token_bucket, 1, now)
    IN  /\ pc[t] = "sleep"
        /\ SleepOver(frame[t].slept_from, frame[t].needed, token_bucket.rate, now)
        /\ token_bucket' = r.tb
        /\ frame' = [frame EXCEPT ![t] = IF r.allowed
                                         THEN [@ EXCEPT !.needed = 0,
                                                        !.slept_from = 0]
                                         ELSE NewFrame]
        /\ totals' = LogConsume(totals, 1, r)
        /\ calls' = [calls EXCEPT ![t].refusals =
                                      IF r.allowed THEN @ ELSE @ + 1,
                                  ![t].outcome =
                                      IF r.allowed THEN @ ELSE "raised"]
        /\ pc' = [pc EXCEPT ![t] = IF r.allowed THEN "request" ELSE "idle"]
        /\ UNCHANGED << locks, web, config, now, circuit_breaker, stats,
                        breaker_log, driver >>

\* The sleep has returned: the second consume(); refused again -> continue.
ConsumeAgain(t) ==
    LET r == consume(token_bucket, 1, now)
    IN  /\ pc[t] = "sleep"
        /\ SleepOver(frame[t].slept_from, frame[t].needed, token_bucket.rate, now)
        /\ token_bucket' = r.tb
        /\ frame' = [frame EXCEPT ![t].needed = 0, ![t].slept_from = 0]
        /\ totals' = LogConsume(totals, 1, r)
        /\ calls' = [calls EXCEPT ![t].refusals =
                                      IF r.allowed THEN @ ELSE @ + 1]
        /\ pc' = [pc EXCEPT ![t] = IF r.allowed THEN "request" ELSE "loop"]
        /\ UNCHANGED << locks, web, config, now, circuit_breaker, stats,
                        breaker_log, driver >>

\* Request that invokes func without counting the request.
RequestUncounted(t) ==
    /\ pc[t] = "request"
    /\ stats' = [stats EXCEPT !.last_request_time = now]
    /\ calls' = [calls EXCEPT ![t].work = @ + 1]
    /\ totals' = [totals EXCEPT !.work_started = @ + 1]
    /\ pc' = [pc EXCEPT ![t] = "work"]
    /\ UNCHANGED << locks, web, config, now, token_bucket, circuit_breaker, frame,
                    breaker_log, driver >>

\* Count the request under the stats lock and invoke func.
Request(t) ==
    /\ pc[t] = "request"
    /\ stats' = [stats EXCEPT !.total_requests = @ + 1,
                              !.last_request_time = now]
    /\ calls' = [calls EXCEPT ![t].work = @ + 1]
    /\ totals' = [totals EXCEPT !.work_started = @ + 1]
    /\ pc' = [pc EXCEPT ![t] = "work"]
    /\ UNCHANGED << locks, web, config, now, token_bucket, circuit_breaker, frame,
                    breaker_log, driver >>

\* WorkReturns that also clears the count of failed requests.
WorkReturnsForgiving(t) ==
    /\ pc[t] = "work"
    /\ stats' = [stats EXCEPT !.successful_requests = @ + 1,
                              !.failed_requests = 0]
    /\ calls' = [calls EXCEPT ![t].succ_incs = @ + 1]
    /\ pc' = [pc EXCEPT ![t] = "success"]
    /\ UNCHANGED << locks, web, config, now, token_bucket, circuit_breaker, frame,
                    totals, breaker_log, driver >>

\* func returned: count the success under the stats lock.
WorkReturns(t) ==
    /\ pc[t] = "work"
    /\ stats' = [stats EXCEPT !.successful_requests = @ + 1]
    /\ calls' = [calls EXCEPT ![t].succ_incs = @ + 1]
    /\ pc' = [pc EXCEPT ![t] = "success"]
    /\ UNCHANGED << locks, web, config, now, token_bucket, circuit_breaker, frame,
                    totals, breaker_log, driver >>

\* WorkRaises that forgets retry_count += 1.
WorkRaisesUncounted(t) ==
    /\ pc[t] = "work"
    /\ frame' = [frame EXCEPT ![t].last_exception = calls[t].work]
    /\ stats' = [stats EXCEPT !.failed_requests = @ + 1,
                              !.total_retry_attempts = @ + 1,
                              !.last_failure_time = now]
    /\ calls' = [calls EXCEPT ![t].retry_incs = @ + 1,
                              ![t].fail_incs = @ + 1]
    /\ pc' = [pc EXCEPT ![t] = "failure"]
    /\ UNCHANGED << locks, web, config, now, token_bucket, circuit_breaker, totals,
                    breaker_log, driver >>

\* WorkRaises that keeps the first exception as last_exception.
WorkRaisesKeepingFirst(t) ==
    /\ pc[t] = "work"
    /\ frame' = [frame EXCEPT ![t].last_exception =
                                  IF @ = 0 THEN calls[t].work ELSE @,
                              ![t].retry_count = @ + 1]
    /\ stats' = [stats EXCEPT !.failed_requests = @ + 1,
                              !.total_retry_attempts = @ + 1,
                              !.last_failure_time = now]
    /\ calls' = [calls EXCEPT ![t].retry_incs = @ + 1,
                              ![t].fail_incs = @ + 1]
    /\ pc' = [pc EXCEPT ![t] = "failure"]
    /\ UNCHANGED << locks, web, config, now, token_bucket, circuit_breaker, totals,
                    breaker_log, driver >>

\* WorkRaises whose failed_requests += 1 is lost.
WorkRaisesLosingUpdate(t) ==
    /\ pc[t] = "work"
    /\ frame' = [frame EXCEPT ![t].last_exception = calls[t].work,
                              ![t].retry_count = @ + 1]
    /\ stats' = [stats EXCEPT !.total_retry_attempts = @ + 1,
                              !.last_failure_time = now]
    /\ calls' = [calls EXCEPT ![t].retry_incs = @ + 1,
                              ![t].fail_incs = @ + 1]
    /\ pc' = [pc EXCEPT ![t] = "failure"]
    /\ UNCHANGED << locks, web, config, now, token_bucket, circuit_breaker, totals,
                    breaker_log, driver >>

\* WorkRaises that counts a retry attempt only when a retry follows.
WorkRaisesCountingRetries(t) ==
    /\ pc[t] = "work"
    /\ frame' = [frame EXCEPT ![t].last_exception = calls[t].work,
                              ![t].retry_count = @ + 1]
    /\ stats' = [stats EXCEPT
                    !.failed_requests = @ + 1,
                    !.total_retry_attempts =
                        IF frame[t].retry_count + 1 <= config.max_retries
                        THEN @ + 1 ELSE @,
                    !.last_failure_time = now]
    /\ calls' = [calls EXCEPT ![t].retry_incs = @ + 1,
                              ![t].fail_incs = @ + 1]
    /\ pc' = [pc EXCEPT ![t] = "failure"]
    /\ UNCHANGED << locks, web, config, now, token_bucket, circuit_breaker, totals,
                    breaker_log, driver >>

\* func raised: the except block up to the end of its stats section.
WorkRaises(t) ==
    /\ pc[t] = "work"
    /\ frame' = [frame EXCEPT ![t].last_exception = calls[t].work,
                              ![t].retry_count = @ + 1]
    /\ stats' = [stats EXCEPT !.failed_requests = @ + 1,
                              !.total_retry_attempts = @ + 1,
                              !.last_failure_time = now]
    /\ calls' = [calls EXCEPT ![t].retry_incs = @ + 1,
                              ![t].fail_incs = @ + 1]
    /\ pc' = [pc EXCEPT ![t] = "failure"]
    /\ UNCHANGED << locks, web, config, now, token_bucket, circuit_breaker, totals,
                    breaker_log, driver >>

\* RecordSuccess that goes round the loop again instead of returning.
RecordSuccessAndRetry(t) ==
    /\ pc[t] = "success"
    /\ circuit_breaker' = record_success(circuit_breaker)
    /\ breaker_log' = LogRecordSuccess(breaker_log, circuit_breaker)
    /\ calls' = [calls EXCEPT ![t].cb_successes = @ + 1]
    /\ frame' = frame
    /\ pc' = [pc EXCEPT ![t] = "loop"]
    /\ UNCHANGED << locks, web, config, now, token_bucket, stats, totals, driver >>

\* circuit_breaker.record_success() and return result.
RecordSuccess(t) ==
    /\ pc[t] = "success"
    /\ circuit_breaker' = record_success(circuit_breaker)
    /\ breaker_log' = LogRecordSuccess(breaker_log, circuit_breaker)
    /\ calls' = [calls EXCEPT ![t].outcome = "returned",
                              ![t].cb_successes = @ + 1]
    /\ frame' = [frame EXCEPT ![t] = NewFrame]
    /\ pc' = [pc EXCEPT ![t] = "idle"]
    /\ UNCHANGED << locks, web, config, now, token_bucket, stats, totals, driver >>

\* RecordFailure that tells the breaker only of failures that are retried.
RecordFailureSkippingLast(t) ==
    /\ pc[t] = "failure"
    /\ IF frame[t].retry_count <= config.max_retries
       THEN /\ circuit_breaker' = record_failure(circuit_breaker, config, now)
            /\ breaker_log' = LogRecordFailure(breaker_log, circuit_breaker)
            /\ calls' = [calls EXCEPT ![t].cb_failures = @ + 1,
                                      ![t].backoffs = @ + 1]
            /\ frame' = [frame EXCEPT ![t].slept_from = now]
            /\ pc' = [pc EXCEPT ![t] = "backoff"]
       ELSE /\ UNCHANGED << circuit_breaker, breaker_log, calls, frame >>
            /\ pc' = [pc EXCEPT ![t] = "loop"]
    /\ UNCHANGED << locks, web, config, now, token_bucket, stats, totals, driver >>

\* circuit_breaker.record_failure(), then the backoff sleep if retries remain.
RecordFailure(t) ==
    /\ pc[t] = "failure"
    /\ circuit_breaker' = record_failure(circuit_breaker, config, now)
    /\ breaker_log' = LogRecordFailure(breaker_log, circuit_breaker)
    /\ IF frame[t].retry_count <= config.max_retries
       THEN /\ frame' = [frame EXCEPT ![t].slept_from = now]
            /\ pc' = [pc EXCEPT ![t] = "backoff"]
       ELSE /\ frame' = frame
            /\ pc' = [pc EXCEPT ![t] = "loop"]
    /\ calls' = [calls EXCEPT ![t].cb_failures = @ + 1,
                              ![t].backoffs =
                                  IF frame[t].retry_count <= config.max_retries
                                  THEN @ + 1 ELSE @]
    /\ UNCHANGED << locks, web, config, now, token_bucket, stats, totals, driver >>

\* Backoff that leaves the backoff time as it is.
BackoffWithoutGrowth(t) ==
    /\ pc[t] = "backoff"
    /\ now - frame[t].slept_from >= Min(frame[t].backoff, config.max_backoff)
    /\ frame' = [frame EXCEPT ![t].slept_from = 0]
    /\ pc' = [pc EXCEPT ![t] = "loop"]
    /\ UNCHANGED << locks, web, config, now, token_bucket, circuit_breaker, stats, calls,
                    totals, breaker_log, driver >>

\* time.sleep(min(backoff, max_backoff)) has returned; backoff *= multiplier.
Backoff(t) ==
    /\ pc[t] = "backoff"
    /\ now - frame[t].slept_from >= Min(frame[t].backoff, config.max_backoff)
    /\ frame' = [frame EXCEPT ![t].backoff = @ * config.backoff_multiplier,
                              ![t].slept_from = 0]
    /\ pc' = [pc EXCEPT ![t] = "loop"]
    /\ UNCHANGED << locks, web, config, now, token_bucket, circuit_breaker, stats, calls,
                    totals, breaker_log, driver >>

\* Loop test failed: raise last_exception.
Exhausted(t) ==
    /\ pc[t] = "loop"
    /\ frame[t].retry_count > config.max_retries
    /\ calls' = [calls EXCEPT ![t].outcome = "raised",
                              ![t].raised = frame[t].last_exception]
    /\ frame' = [frame EXCEPT ![t] = NewFrame]
    /\ pc' = [pc EXCEPT ![t] = "idle"]
    /\ UNCHANGED << locks, web, config, now, token_bucket, circuit_breaker, stats, totals,
                    breaker_log, driver >>

Next ==
    \/ Tick
    \/ \E t \in Threads : Execute(t)
    \/ \E t \in Threads : Reject(t)
    \/ \E t \in Threads : Consume(t)
    \/ \E t \in Threads : Limited(t)
    \/ \E t \in Threads : ConsumeAgain(t)
    \/ \E t \in Threads : Request(t)
    \/ \E t \in Threads : WorkReturns(t)
    \/ \E t \in Threads : WorkRaises(t)
    \/ \E t \in Threads : RecordSuccess(t)
    \/ \E t \in Threads : RecordFailure(t)
    \/ \E t \in Threads : Backoff(t)
    \/ \E t \in Threads : Exhausted(t)

Init == Boot(LimiterConfigs)

Spec == Init /\ [][Next]_vars

\* ------------------------------------------------ calls that go on
\* A time one tick further in the past, as far back as the clock's origin.
Older(x) == IF x = None \/ x = 0 THEN x ELSE x - 1

\* The clock advances beyond its limit: instead of now growing, every
\* stored time becomes one tick older.  The bucket is brought up to date
\* (a refill in two parts gives what one refill gives); a time at the
\* origin stays there, which loses nothing as long as no timeout, backoff
\* or token wait of a configuration is longer than MaxTime.
Rebase ==
    /\ now = MaxTime
    /\ now' = now
    /\ token_bucket' = [token_bucket EXCEPT
                           !.tokens = Refilled(token_bucket, now + 1),
                           !.last_update = now]
    /\ circuit_breaker' = [circuit_breaker EXCEPT
                              !.last_failure_time = Older(@)]
    /\ stats' = [stats EXCEPT !.last_request_time = Older(@),
                              !.last_failure_time = Older(@)]
    /\ frame' = [t \in Threads |->
                    [frame[t] EXCEPT !.slept_from = Older(@)]]
    /\ totals' = LogTick(totals, token_bucket, now + 1)
    /\ UNCHANGED << locks, web, config, pc, calls, breaker_log, driver >>

\* The next step of thread t's call.
Proceed(t) ==
    \/ Reject(t)
    \/ Consume(t)
    \/ Limited(t)
    \/ ConsumeAgain(t)
    \/ Request(t)
    \/ WorkReturns(t)
    \/ WorkRaises(t)
    \/ RecordSuccess(t)
    \/ RecordFailure(t)
    \/ Backoff(t)
    \/ Exhausted(t)

NextLive ==
    \/ Next
    \/ Rebase

\* Time passes, every thread in a call is scheduled again and again, and
\* every invocation of func ends.
Fairness ==
    /\ WF_vars(Tick \/ Rebase)
    /\ \A t \in Threads : WF_vars(Proceed(t))

SpecLive == Init /\ [][NextLive]_vars /\ Fairness

\* ------------------------------------------- the upstream recovers
\* From some moment on every invocation of func succeeds.
Healthy == driver.op = "recovered"

Recover ==
    /\ ~Healthy
    /\ driver' = [ NewDriver EXCEPT !.op = "recovered", !.at = now ]
    /\ UNCHANGED << locks, web, config, now, token_bucket, circuit_breaker, stats, pc,
                    frame, calls, totals, breaker_log >>

\* func raises, which it does not once the upstream has recovered.
Falter(t) ==
    /\ ~Healthy
    /\ WorkRaises(t)

\* The next step of thread t's call.
ProceedRecover(t) ==
    \/ Reject(t)
    \/ Consume(t)
    \/ Limited(t)
    \/ ConsumeAgain(t)
    \/ Request(t)
    \/ WorkReturns(t)
    \/ Falter(t)
    \/ RecordSuccess(t)
    \/ RecordFailure(t)
    \/ Backoff(t)
    \/ Exhausted(t)

NextRecover ==
    \/ Tick
    \/ Rebase
    \/ Recover
    \/ \E t \in Threads : Execute(t)
    \/ \E t \in Threads : ProceedRecover(t)

\* Time passes, every thread in a call is scheduled again and again, every
\* invocation of func ends, and execute keeps being called.
FairnessRecover ==
    /\ WF_vars(Tick \/ Rebase)
    /\ WF_vars(\E t \in Threads : Execute(t))
    /\ \A t \in Threads : WF_vars(ProceedRecover(t))

SpecRecover == Init /\ [][NextRecover]_vars /\ FairnessRecover

\* --------------------------------------- get_stats and reset_stats
\* ResetStats that leaves the timestamps as they are.
ResetStatsPartial ==
    /\ totals.resets < MaxResets
    /\ stats' = [ NewStats EXCEPT
                     !.last_request_time = stats.last_request_time,
                     !.last_failure_time = stats.last_failure_time ]
    /\ totals' = [totals EXCEPT !.resets = @ + 1]
    /\ UNCHANGED << locks, web, config, now, token_bucket, circuit_breaker, pc, frame,
                    calls, breaker_log, driver >>

\* reset_stats(), called from outside the threads in execute: the stats
\* object is replaced under the stats lock.
ResetStats ==
    /\ totals.resets < MaxResets
    /\ stats' = NewStats
    /\ totals' = [totals EXCEPT !.resets = @ + 1]
    /\ UNCHANGED << locks, web, config, now, token_bucket, circuit_breaker, pc, frame,
                    calls, breaker_log, driver >>

\* get_stats(), called from outside the threads in execute: the dictionary
\* is built under the stats lock.
GetStats ==
    /\ driver' = [ NewDriver EXCEPT
                      !.op = "get_stats", !.at = now,
                      !.stats = get_stats(stats, circuit_breaker) ]
    /\ UNCHANGED << locks, web, config, now, token_bucket, circuit_breaker, stats, pc,
                    frame, calls, totals, breaker_log >>

\* A single caller, thread 1, begins a call, up to limit calls.
Call(limit) ==
    /\ calls[1].executes < limit
    /\ Begin(1)
    /\ UNCHANGED driver

\* The single caller's call goes on.
Steps ==
    \/ Reject(1)
    \/ Consume(1)
    \/ Limited(1)
    \/ ConsumeAgain(1)
    \/ Request(1)
    \/ WorkReturns(1)
    \/ WorkRaises(1)
    \/ RecordSuccess(1)
    \/ RecordFailure(1)
    \/ Backoff(1)
    \/ Exhausted(1)

\* One thread in execute while get_stats() and reset_stats() are called
\* from other threads.
NextOps ==
    \/ Tick
    \/ Call(MaxExecutes)
    \/ Steps
    \/ ResetStats
    \/ GetStats

SpecOps == Init /\ [][NextOps]_vars

\* ------------------------------------------------- a single caller
\* The caller's own steps and func take far less than a tick: the clock
\* advances while the caller sleeps or is between two calls.
SoloTick ==
    /\ pc[1] \in {"idle", "sleep", "backoff"}
    /\ Advance(MaxSoloTime)

\* The caller begins its next call.
SoloCall ==
    /\ driver.op = "none"
    /\ Call(MaxSoloCalls)

\* After its calls the caller reads the statistics.
SoloGetStats ==
    /\ pc[1] = "idle"
    /\ GetStats

\* One thread makes one call after the other and then reads the
\* statistics, as test_get_stats and test_rate_limiting do.
NextSolo ==
    \/ SoloTick
    \/ SoloCall
    \/ Steps
    \/ SoloGetStats

InitSolo == Boot(SoloConfigs)

SpecSolo == InitSolo /\ [][NextSolo]_vars

\* --------------------------- a single caller and the breaker's gate
GateTick ==
    /\ pc[1] \in {"idle", "sleep", "backoff"}
    /\ Advance(MaxGateTime)

\* When the single caller's last call ended: a rejected call ends as it
\* begins, a call that raises ends with its last recorded failure and a
\* call that returns with its last request, the clock standing still
\* outside sleeps.
EndedAt ==
    IF calls[1].outcome = "rejected" THEN driver.at
    ELSE IF calls[1].outcome = "raised" THEN stats.last_failure_time
    ELSE IF calls[1].outcome = "returned" THEN stats.last_request_time
    ELSE now

\* The caller begins its next call.
GateCall ==
    /\ calls[1].executes < MaxGateCalls
    /\ Begin(1)
    /\ driver' = [ NewDriver EXCEPT !.op = "execute", !.at = now,
                                    !.gap = now - EndedAt ]

\* One thread makes one call after the other, at any times.
NextGate ==
    \/ GateTick
    \/ GateCall
    \/ Steps

InitGate == Boot(GateConfigs)

SpecGate == InitGate /\ [][NextGate]_vars

\* ============================================================== claims

\* C1: func is invoked only by a thread that consume(1) has just admitted
\* (every grant is followed by exactly one invocation, every invocation is
\* preceded by its own grant), so the invocations started by time `now`
\* number at most burst_size + rate * (now - creation time).
C1_WorkNeedsToken ==
    /\ totals.work_started + Cardinality({t \in Threads : pc[t] = "request"})
          = totals.granted
    /\ totals.work_started * TokenScale
          <= config.burst_size * TokenScale + config.rate * now

\* C1 witness: both threads have invoked func, one of them after a
\* rate-limit wait, and the bound is met with equality after time passed.
C1_Witness ==
    /\ now > 0
    /\ stats.rate_limited_requests > 0
    /\ \A t \in Threads : calls[t].work > 0
    /\ totals.work_started * TokenScale
          = config.burst_size * TokenScale + config.rate * now

\* C2: a call refused at the gate leaves the breaker as it found it, and
\* its only other effect is circuit_breaker_rejections + 1: func is not
\* invoked, no token is consumed, no other statistic changes.
C2_RejectionOnly ==
    [][\A t \in Threads :
        /\ (pc[t] = "idle" /\ pc'[t] = "reject") =>
              /\ circuit_breaker' = circuit_breaker
              /\ stats' = stats
              /\ token_bucket' = token_bucket
              /\ totals' = totals
        /\ (pc[t] = "reject" /\ pc'[t] # "reject") =>
              /\ pc'[t] = "idle"
              /\ calls'[t].outcome = "rejected"
              /\ calls'[t].work = 0
              /\ stats' = [stats EXCEPT !.circuit_breaker_rejections = @ + 1]
              /\ circuit_breaker' = circuit_breaker
              /\ token_bucket' = token_bucket
              /\ totals' = [totals EXCEPT !.rejected = @ + 1]
    ]_vars

\* C2 witness: a call has been rejected after the limiter served requests.
C2_Witness ==
    /\ \E t \in Threads : calls[t].outcome = "rejected"
    /\ stats.circuit_breaker_rejections = 1
    /\ stats.failed_requests > 0
    /\ circuit_breaker.state = OPEN

\* C3: no execute call invokes func more than max_retries + 1 times; a
\* call that raises after passing the gate has invoked it exactly
\* max_retries + 1 times, and after the (max_retries + 1)-th invocation has
\* failed the loop test fails too, so that raising is all the call does.
C3_RetryBound ==
    \A t \in Threads :
        /\ calls[t].work <= config.max_retries + 1
        /\ calls[t].outcome = "raised" => calls[t].work = config.max_retries + 1
        /\ (pc[t] = "loop" /\ calls[t].work = config.max_retries + 1) =>
              frame[t].retry_count > config.max_retries

\* C3 witness: a call with retries configured has exhausted them.
C3_Witness ==
    \E t \in Threads :
        /\ calls[t].outcome = "raised"
        /\ config.max_retries = MaxRetries
        /\ calls[t].work = MaxRetries + 1

\* C4: a call whose func always fails raises total_retry_attempts by
\* max_retries.
C4_RetryAttempts ==
    \A t \in Threads :
        calls[t].outcome = "raised" => calls[t].retry_incs = config.max_retries

\* C5: from Closed the breaker opens exactly at the failure_threshold-th
\* record_failure() since creation or the last record_success(); below that
\* it stays Closed, and a record_success() leaves it Closed with
\* failure_count 0.
C5_Threshold ==
    /\ circuit_breaker.state = CLOSED =>
          /\ circuit_breaker.failure_count = breaker_log.consecutive
          /\ breaker_log.consecutive < config.failure_threshold
    /\ (driver.op = "record_failure" /\ driver.cb.state = CLOSED) =>
          /\ circuit_breaker.state \in {CLOSED, OPEN}
          /\ circuit_breaker.state = OPEN
                <=> breaker_log.consecutive = config.failure_threshold
    /\ (driver.op = "record_success" /\ driver.cb.state = CLOSED) =>
          /\ circuit_breaker.state = CLOSED
          /\ circuit_breaker.failure_count = 0

\* C5 witness: threshold - 1 failures, then a success, with threshold > 1.
C5_Witness ==
    /\ driver.op = "record_success"
    /\ driver.cb.state = CLOSED
    /\ config.failure_threshold > 1
    /\ driver.cb.failure_count = config.failure_threshold - 1
    /\ circuit_breaker.state = CLOSED
    /\ circuit_breaker.failure_count = 0

\* C6: while Open with last failure at T, a call_allowed() before
\* T + recovery_timeout returns false and changes nothing, one at or after
\* it returns true and moves to HalfOpen; nothing else (record_success,
\* record_failure, the passing of time) takes the breaker out of Open.
C6_OpenChecks ==
    /\ circuit_breaker.state = OPEN => circuit_breaker.last_failure_time # None
    /\ (driver.op = "call_allowed" /\ driver.cb.state = OPEN) =>
          IF driver.at - driver.cb.last_failure_time >= config.recovery_timeout
          THEN driver.allowed /\ circuit_breaker.state = HALF_OPEN
          ELSE ~driver.allowed /\ circuit_breaker = driver.cb

\* C6 (whole claim): the checks made while Open behave as above in every
\* state, and every step that leaves Open is a call_allowed() made then.
C6_RecoveryTiming ==
    /\ []C6_OpenChecks
    /\ [][(circuit_breaker.state = OPEN /\ circuit_breaker'.state # OPEN) =>
             /\ driver'.op = "call_allowed"
             /\ driver'.cb = circuit_breaker
             /\ driver'.at = now ]_vars

\* C6 witness: the check made exactly at T + recovery_timeout, after
\* earlier refused checks had to wait (recovery_timeout > 0).
C6_Witness ==
    /\ driver.op = "call_allowed"
    /\ driver.cb.state = OPEN
    /\ config.recovery_timeout > 0
    /\ driver.at - driver.cb.last_failure_time = config.recovery_timeout
    /\ driver.allowed
    /\ circuit_breaker.state = HALF_OPEN

\* C7: from HalfOpen one record_failure() opens the breaker, whatever
\* half_open_max_calls, failure_threshold and failure_count are.
C7_HalfOpenStrike ==
    (driver.op = "record_failure" /\ driver.cb.state = HALF_OPEN) =>
        circuit_breaker.state = OPEN

\* C7 witness: the failure came with failure_count 0 and left it below
\* the threshold, with probes still available.
C7_Witness ==
    /\ driver.op = "record_failure"
    /\ driver.cb.state = HALF_OPEN
    /\ driver.cb.failure_count = 0
    /\ driver.cb.half_open_calls < config.half_open_max_calls
    /\ circuit_breaker.failure_count < config.failure_threshold
    /\ circuit_breaker.state = OPEN

\* C8: record_success() from HalfOpen gives Closed with failure_count 0
\* and half_open_calls 0; from any other state it keeps the state and sets
\* failure_count to 0.
C8_RecordSuccess ==
    driver.op = "record_success" =>
        IF driver.cb.state = HALF_OPEN
        THEN /\ circuit_breaker.state = CLOSED
             /\ circuit_breaker.failure_count = 0
             /\ circuit_breaker.half_open_calls = 0
        ELSE /\ circuit_breaker.state = driver.cb.state
             /\ circuit_breaker.failure_count = 0

\* C8 witness: the success found HalfOpen with probes and failures counted.
C8_Witness ==
    /\ driver.op = "record_success"
    /\ driver.cb.state = HALF_OPEN
    /\ driver.cb.half_open_calls > 0
    /\ driver.cb.failure_count > 0
    /\ circuit_breaker.state = CLOSED

\* C9: in one HalfOpen episode at most half_open_max_calls call_allowed()
\* checks return true, the check that opened the episode included.
C9_ProbeLimit ==
    circuit_breaker.state = HALF_OPEN =>
        breaker_log.admitted <= config.half_open_max_calls

\* C10: 0 <= tokens <= capacity in every state, and the bucket is full
\* until the first consume.
C10_TokensInRange ==
    /\ 0 <= token_bucket.tokens
    /\ token_bucket.tokens <= token_bucket.capacity * TokenScale
    /\ driver.op = "none" =>
          token_bucket.tokens = token_bucket.capacity * TokenScale

\* C10 witness: a consume whose refill had to be cut off at capacity.
C10_Witness ==
    /\ driver.op = "consume"
    /\ driver.tb.tokens + (driver.at - driver.tb.last_update) * driver.tb.rate
          > driver.tb.capacity * TokenScale
    /\ driver.tb.tokens < driver.tb.capacity * TokenScale
    /\ driver.allowed

\* C11: while the clock stands still, the tokens handed out by consume
\* calls, in whatever order they take the lock, never exceed the balance the
\* first of them started from: what is handed out is taken from the balance.
C11_NoDoubleSpend ==
    /\ totals.admitted * TokenScale <= totals.instant_tokens
    /\ totals.admitted * TokenScale + Refilled(token_bucket, now)
          = totals.instant_tokens

\* C11 witness: more tokens than one call can take were handed out in one
\* instant, and then a call the starting balance would have covered was
\* refused.
C11_Witness ==
    /\ driver.op = "consume"
    /\ ~driver.allowed
    /\ now > 0
    /\ totals.admitted > MaxConsume
    /\ driver.n * TokenScale <= totals.instant_tokens

\* C12: a refused consume(n) leaves the refilled balance as it is and
\* returns the wait (n - tokens) / rate, which is positive; an admitted one
\* subtracts exactly n and returns wait 0.
C12_ConsumeEffect ==
    driver.op = "consume" =>
        IF driver.allowed
        THEN /\ driver.needed = 0
             /\ token_bucket.tokens
                   = Refilled(driver.tb, driver.at) - driver.n * TokenScale
        ELSE /\ token_bucket.tokens = Refilled(driver.tb, driver.at)
             /\ token_bucket.tokens < driver.n * TokenScale
             /\ driver.needed = driver.n * TokenScale - token_bucket.tokens
             /\ driver.needed > 0
             /\ token_bucket.rate > 0

\* C12 witness: a refusal that found tokens and had refilled some.
C12_Witness ==
    /\ driver.op = "consume"
    /\ ~driver.allowed
    /\ driver.at > driver.tb.last_update
    /\ token_bucket.tokens > driver.tb.tokens
    /\ driver.tb.tokens > 0

\* C13: a consume made dt after the previous one compares against
\* min(capacity, previous tokens + dt * rate) and sets last_update to now;
\* no elapsed time is credited twice: the balance plus all tokens handed
\* out never exceeds capacity + rate * last_update.
C13_RefillOnce ==
    /\ driver.op = "consume" =>
          /\ token_bucket.last_update = driver.at
          /\ token_bucket.tokens
                + (IF driver.allowed THEN driver.n * TokenScale ELSE 0)
                = Min(driver.tb.capacity * TokenScale,
                      driver.tb.tokens
                         + (driver.at - driver.tb.last_update) * driver.tb.rate)
    /\ token_bucket.tokens + totals.granted * TokenScale
          <= token_bucket.capacity * TokenScale
                + token_bucket.rate * token_bucket.last_update

\* C13 witness: the second refill of a bucket, below capacity.
C13_Witness ==
    /\ driver.op = "consume"
    /\ driver.tb.last_update > 0
    /\ driver.at > driver.tb.last_update
    /\ driver.tb.tokens + (driver.at - driver.tb.last_update) * driver.tb.rate
          < driver.tb.capacity * TokenScale

\* C14: a call whose func fails k times (k <= max_retries) and then succeeds
\* invokes func exactly k + 1 times, adds 1 to successful_requests and k to
\* failed_requests and calls record_success() once; func is never invoked
\* again after it has succeeded.
C14_SuccessAfterFailures ==
    /\ [] \A t \in Threads :
          /\ calls[t].succ_incs <= 1
          /\ calls[t].cb_successes <= calls[t].succ_incs
          /\ calls[t].succ_incs = 1 => pc[t] \in {"success", "idle"}
          /\ calls[t].outcome = "returned" =>
                /\ calls[t].fail_incs <= config.max_retries
                /\ calls[t].work = calls[t].fail_incs + 1
                /\ calls[t].succ_incs = 1
                /\ calls[t].cb_successes = 1
    /\ [][\A t \in Threads :
             /\ calls'[t].succ_incs = calls[t].succ_incs + 1 =>
                   stats'.successful_requests = stats.successful_requests + 1
             /\ calls'[t].fail_incs = calls[t].fail_incs + 1 =>
                   stats'.failed_requests = stats.failed_requests + 1
             /\ calls'[t].cb_successes = calls[t].cb_successes + 1 =>
                   circuit_breaker' = record_success(circuit_breaker)]_vars

\* C14 witness: a call has returned after max_retries failures.
C14_Witness ==
    \E t \in Threads :
       /\ calls[t].outcome = "returned"
       /\ config.max_retries > 0
       /\ calls[t].fail_incs = config.max_retries
       /\ calls[t].work = config.max_retries + 1

\* C15: when every one of the max_retries + 1 invocations of func fails,
\* the call raises the error of the last of them.
C15_LastErrorRaised ==
    \A t \in Threads :
       calls[t].outcome = "raised" =>
          /\ calls[t].work = config.max_retries + 1
          /\ calls[t].raised = calls[t].work

\* C15 witness: a call has raised after more than one failed invocation.
C15_Witness ==
    \E t \in Threads :
       /\ calls[t].outcome = "raised"
       /\ calls[t].work > 1
       /\ calls[t].raised > 1

C17_SuccessRateRange ==
    /\ stats.successful_requests <= stats.total_requests
    /\ 0 <= success_rate(stats)[1]
    /\ 0 < success_rate(stats)[2]
    /\ success_rate(stats)[1] <= success_rate(stats)[2]
    /\ stats.total_requests = 0 => success_rate(stats)[1] = 0
    /\ stats.total_requests > 0 =>
          success_rate(stats) = << stats.successful_requests,
                                   stats.total_requests >>

\* C17 witness: every call has ended, some invocations having succeeded and
\* some failed, so that the rate is strictly between 0 and 1.
C17_Witness ==
    /\ \A t \in Threads : pc[t] = "idle"
    /\ Started = MaxExecutes
    /\ stats.successful_requests > 0
    /\ stats.successful_requests < stats.total_requests

\* C18: reset_stats() sets the six counters to 0 and both timestamps to
\* None in one step and leaves the token bucket and the circuit breaker as
\* they were; fields that are written together under the stats lock are
\* never seen apart, in the stats or in a dictionary from get_stats().
C18_ResetAtomic ==
    /\ [] /\ stats.failed_requests = stats.total_retry_attempts
          /\ stats.failed_requests > 0 <=> stats.last_failure_time # None
          /\ stats.total_requests > 0 <=> stats.last_request_time # None
          /\ driver.op = "get_stats" =>
                /\ driver.stats.failed_requests
                      = driver.stats.total_retry_attempts
                /\ driver.stats.failed_requests > 0
                      <=> driver.stats.last_failure_time # "None"
                /\ driver.stats.total_requests > 0
                      <=> driver.stats.last_request_time # "None"
    /\ [][totals'.resets # totals.resets =>
             /\ stats' = NewStats
             /\ token_bucket' = token_bucket
             /\ circuit_breaker' = circuit_breaker]_vars
    /\ [][driver' # driver =>
             /\ driver'.op = "get_stats"
             /\ driver'.stats = get_stats(stats, circuit_breaker)
             /\ stats' = stats]_vars

\* C18 witness: get_stats() after a reset_stats() made in the middle of a
\* call returns the dictionary of new stats, while the bucket has tokens
\* missing and the breaker has failures counted.
C18_Witness ==
    /\ totals.resets > 0
    /\ driver.op = "get_stats"
    /\ driver.stats = get_stats(NewStats, circuit_breaker)
    /\ stats = NewStats
    /\ calls[1].outcome = "running"
    /\ calls[1].fail_incs > 0
    /\ circuit_breaker.failure_count > 0
    /\ token_bucket.tokens < token_bucket.capacity * TokenScale

\* C19: with the default configuration, after a call whose func succeeds
\* and a call whose func always fails, get_stats() reports
\* total_requests = 2, successful_requests = 1, failed_requests = 1 and
\* circuit_state = "closed".
C19_CountsCalls ==
    ( /\ config = StatsTestConfig
      /\ driver.op = "get_stats"
      /\ calls[1].executes = 2
      /\ calls[1].outcome = "raised"
      /\ stats.successful_requests = 1
      /\ stats.failed_requests = calls[1].fail_incs
      /\ stats.circuit_breaker_rejections = 0 )
    => /\ driver.stats.total_requests = 2
       /\ driver.stats.successful_requests = 1
       /\ driver.stats.failed_requests = 1
       /\ driver.stats.circuit_state = CLOSED

\* C20: at 2 requests per second and burst 2, with a func that always
\* succeeds: the first two calls are never refused a token; a third call
\* made with no time elapsed is refused once, sleeps for the one tick (half
\* a second) that one token takes, is then granted a token and succeeds,
\* leaving rate_limited_requests = 1 and successful_requests = 3.
C20_ThirdCallWaits ==
    ( /\ config = RateTestConfig
      /\ stats.failed_requests = 0
      /\ calls[1].executes <= 3 )
    => /\ calls[1].executes <= 2 =>
             /\ stats.rate_limited_requests = 0
             /\ pc[1] \notin {"limited", "sleep"}
       /\ calls[1].executes = 3 /\ now = 0 =>
             /\ pc[1] \in {"loop", "limited", "sleep"}
             /\ stats.successful_requests = 2
       /\ pc[1] \in {"limited", "sleep"} /\ token_bucket.last_update = 0 =>
             /\ frame[1].needed = TokenScale
             /\ ~SleepOver(0, frame[1].needed, token_bucket.rate, 0)
             /\ SleepOver(0, frame[1].needed, token_bucket.rate, 1)
       /\ pc[1] = "sleep" => stats.rate_limited_requests = 1
       /\ pc[1] = "loop" => stats.rate_limited_requests = 0
       /\ stats.rate_limited_requests <= 1
       /\ stats.rate_limited_requests = 1 =>
             /\ calls[1].executes = 3
             /\ pc[1] \in {"sleep", "request", "work", "success", "idle"}
             /\ pc[1] \in {"work", "success", "idle"} =>
                   stats.last_request_time >= 1
       /\ calls[1].executes = 3 /\ pc[1] = "idle" =>
             /\ calls[1].outcome = "returned"
             /\ stats.successful_requests = 3

\* C20 witness: the third call, begun at time 0, has returned after its
\* wait of one tick.
C20_Witness ==
    /\ config = RateTestConfig
    /\ calls[1].executes = 3
    /\ calls[1].outcome = "returned"
    /\ stats.failed_requests = 0
    /\ stats.rate_limited_requests = 1
    /\ stats.successful_requests = 3
    /\ stats.last_request_time = 1
    /\ now = 1

\* C21 as stated: with failure_threshold = 3, recovery_timeout = 60 s and
\* any max_retries, after three calls that each ended in an error the
\* breaker is Open, and a fourth call made 10 s (one tick) later is rejected
\* without invoking func, leaving circuit_breaker_rejections = 1.
C21_EveryMaxRetries ==
    /\ ( /\ calls[1].executes = 3
         /\ pc[1] = "idle"
         /\ stats.successful_requests = 0 )
       => circuit_breaker.state = OPEN
    /\ ( /\ calls[1].executes = 4
         /\ stats.successful_requests = 0
         /\ driver.gap = 1 )
       => /\ pc[1] \in {"reject", "idle"}
          /\ calls[1].work = 0
          /\ pc[1] = "idle" =>
                /\ calls[1].outcome = "rejected"
                /\ stats.circuit_breaker_rejections = 1

\* C21 amended: the same with max_retries = 0, where each of the three
\* calls records one failure and none of them meets an open breaker.
C21_NoRetries ==
    config.max_retries = 0 =>
       /\ ( /\ calls[1].executes = 3
            /\ pc[1] = "idle"
            /\ stats.successful_requests = 0 )
          => /\ circuit_breaker.state = OPEN
             /\ circuit_breaker.failure_count = 3
             /\ stats.circuit_breaker_rejections = 0
       /\ ( /\ calls[1].executes = 4
            /\ stats.successful_requests = 0
            /\ driver.gap = 1 )
          => /\ pc[1] \in {"reject", "idle"}
             /\ calls[1].work = 0
             /\ pc[1] = "idle" =>
                   /\ calls[1].outcome = "rejected"
                   /\ stats.circuit_breaker_rejections = 1

\* C21 witness: without retries, the fourth call has been rejected one tick
\* after the third failed.
C21_Witness ==
    /\ config.max_retries = 0
    /\ calls[1].executes = 4
    /\ calls[1].outcome = "rejected"
    /\ driver.gap = 1
    /\ stats.failed_requests = 3
    /\ stats.circuit_breaker_rejections = 1
    /\ circuit_breaker.state = OPEN

C23_Recovery ==
    /\ [][\A t \in Threads :
             /\ ( /\ calls'[t].executes = calls[t].executes + 1
                  /\ circuit_breaker.state = OPEN
                  /\ now - circuit_breaker.last_failure_time
                        >= config.recovery_timeout )
                => /\ pc'[t] = "loop"
                   /\ circuit_breaker'.state = HALF_OPEN
             /\ ( /\ calls'[t].cb_successes = calls[t].cb_successes + 1
                  /\ circuit_breaker.state = HALF_OPEN )
                => circuit_breaker'.state = CLOSED]_vars
    /\ ( /\ Healthy
         /\ \A t \in Threads : pc[t] # "failure"
         /\ \/ circuit_breaker.state = HALF_OPEN
            \/ /\ circuit_breaker.state = OPEN
               /\ now - circuit_breaker.last_failure_time
                     >= config.recovery_timeout
               /\ Started < MaxExecutes )
       ~> (circuit_breaker.state = CLOSED)

\* C23 witness: a breaker that its first failure opened is Closed after
\* the upstream's recovery, a call made after the timeout having returned.
C23_Witness ==
    /\ Healthy
    /\ circuit_breaker.state = CLOSED
    /\ config.failure_threshold = 1
    /\ stats.failed_requests > 0
    /\ \E t \in Threads :
          /\ calls[t].outcome = "returned"
          /\ stats.last_request_time
                >= stats.last_failure_time + config.recovery_timeout

\* C24: no step of an execute call lowers total_requests,
\* successful_requests, failed_requests, rate_limited_requests,
\* circuit_breaker_rejections or total_retry_attempts; a step that lowers
\* one of them is a reset_stats().
C24_CountersGrow ==
    [][/\ totals'.resets = totals.resets =>
             /\ stats'.total_requests >= stats.total_requests
             /\ stats'.successful_requests >= stats.successful_requests
             /\ stats'.failed_requests >= stats.failed_requests
             /\ stats'.rate_limited_requests >= stats.rate_limited_requests
             /\ stats'.circuit_breaker_rejections
                   >= stats.circuit_breaker_rejections
             /\ stats'.total_retry_attempts >= stats.total_retry_attempts
       /\ ( \/ stats'.total_requests < stats.total_requests
            \/ stats'.successful_requests < stats.successful_requests
            \/ stats'.failed_requests < stats.failed_requests
            \/ stats'.rate_limited_requests < stats.rate_limited_requests
            \/ stats'.circuit_breaker_rejections
                  < stats.circuit_breaker_rejections
            \/ stats'.total_retry_attempts < stats.total_retry_attempts )
          => /\ totals'.resets = totals.resets + 1
             /\ stats' = NewStats
             /\ pc' = pc]_vars

\* C24 witness: a reset_stats() in the middle of a call has lowered
\* failed_requests below the call's own count of failures, and the counters
\* have grown again since.
C24_Witness ==
    /\ totals.resets > 0
    /\ calls[1].fail_incs > stats.failed_requests
    /\ stats.failed_requests > 0
    /\ stats.total_retry_attempts > 0
    /\ stats.total_requests > 0
    /\ stats.rate_limited_requests > 0

WebTick ==
    /\ now < MaxWebTime
    /\ now' = now + 1
    /\ UNCHANGED << locks, web, config, token_bucket, circuit_breaker, stats, pc,
                    frame, calls, totals, breaker_log, driver >>

\* A request goes through RateLimitMiddleware.dispatch.
Dispatch ==
    /\ response.n < MaxWebCalls
    /\ \E request \in WebRequests, app_status \in AppStatuses :
          LET d == dispatch(default_config, limiter, request, now,
                            app_status)
          IN  /\ limiter' = d.requests
              /\ served' =
                    IF d.checked /\ ~d.limited
                    THEN [ k \in DOMAIN served \cup {d.key} |->
                             IF k = d.key
                             THEN Append(Recorded(served, k), now)
                             ELSE served[k] ]
                    ELSE served
              /\ response' = [ n |-> response.n + 1,
                               request |-> request, checked |-> d.checked,
                               key |-> d.key, limited |-> d.limited,
                               info |-> d.info, status |-> d.status ]
    /\ UNCHANGED << locks, default_config, config, now, token_bucket,
                    circuit_breaker, stats, pc, frame, calls, totals,
                    breaker_log, driver >>

NextMiddleware == WebTick \/ Dispatch

InitMiddleware == Construct({DefaultConfig}, MiddlewareConfigs)

SpecMiddleware == InitMiddleware /\ [][NextMiddleware]_vars

\* The configuration and the key dispatch uses for a request.
ConfigOf(request) == get_rate_limit_config(default_config, request)
KeyOf(request) == rate_limit_key(ConfigOf(request), request)

\* The requests the limiter is asked about.
Metered == { request \in WebRequests : request.path \notin HealthPaths }

\* How many of the times in seq lie in the window (from, from + length].
CountIn(seq, from, length) ==
    Cardinality({ i \in DOMAIN seq : seq[i] > from /\ seq[i] <= from + length })

\* The step is a dispatch that asked the limiter.
Asked == response'.n = response.n + 1 /\ response'.checked

\* C26: per key, is_rate_limited admits at most max_requests requests with
\* timestamps in any window (a, a + window]; a request is limited exactly
\* when max_requests earlier admitted requests of its key have timestamps
\* strictly greater than now - window; a limited request is not recorded,
\* an admitted one is, so a key is admitted again once its older requests
\* have left the window.
C26_SlidingWindow ==
    /\ [] \A request \in Metered : \A a \in (0 - 1)..MaxWebTime :
              CountIn(Recorded(served, KeyOf(request)), a,
                      ConfigOf(request).window * Hz)
                  <= ConfigOf(request).requests
    /\ [][Asked =>
            LET cfg == ConfigOf(response'.request)
                key == response'.key
                earlier == Recorded(served, key)
                recent == CountIn(earlier, now - cfg.window * Hz,
                                  cfg.window * Hz)
            IN  /\ key = KeyOf(response'.request)
                /\ response'.limited <=> recent = cfg.requests
                /\ response'.limited =>
                      /\ served' = served
                      /\ limiter' = limiter
                      /\ response'.status = 429
                /\ ~response'.limited =>
                      /\ Recorded(served', key) = Append(earlier, now)
                      /\ Recorded(limiter', key)
                           = Append(SelectSeq(Recorded(limiter, key),
                                      LAMBDA r : r > now - cfg.window * Hz),
                                    now)
                      /\ response'.status \in AppStatuses
         ]_vars

\* C26 witness: a request has been limited under a key that had filled its
\* quota, was admitted again after the window had passed, and filled it
\* again.
C26_Witness ==
    /\ response.limited
    /\ Len(Recorded(served, response.key))
          > ConfigOf(response.request).requests

\* C27: a limited request is answered with remaining == 0 and with
\* 0 < retry_after <= window, also when it is made at the timestamp of the
\* oldest recorded request.
C27_RetryAfterRange ==
    response.limited =>
        /\ response.info.remaining = 0
        /\ response.info.retry_after > 0
        /\ response.info.retry_after <= ConfigOf(response.request).window

\* C28: a request to /health, /healthz or /monitoring/health is passed to
\* the application without the limiter being asked: its answer is the
\* application's, never 429, and the recorded requests of every key are
\* left as they were.
C28_HealthBypass ==
    [][(response'.n = response.n + 1
            /\ response'.request.path \in HealthPaths) =>
          /\ ~response'.checked
          /\ response'.status \in AppStatuses
          /\ response'.status # 429
          /\ limiter' = limiter
          /\ served' = served
      ]_vars

\* C28 witness: every request so far went to a health path, as many as
\* the model dispatches and more than the quota allows, and none was
\* recorded.
C28_Witness ==
    /\ response.n = MaxWebCalls
    /\ response.n > default_config.requests
    /\ response.request.path \in HealthPaths
    /\ response.status = 200
    /\ DOMAIN limiter = {}

\* What is_rate_limited would answer for a request made now.
Verdict(requests, request) ==
    LET cfg == ConfigOf(request)
        r == is_rate_limited(requests, rate_limit_key(cfg, request),
                             cfg.requests, cfg.window, now)
    IN  << r.limited, r.info >>

\* C29: quotas are independent per key.  A request checked under one key
\* changes neither the recorded requests of any other key nor what the
\* limiter would answer for it; and the key is built from key_prefix,
\* method, path and client, so the client of a request has a different
\* key on every other path.
C29_KeysIndependent ==
    /\ [] \A other \in WebRequests :
              (/\ other.method = response.request.method
               /\ get_client_identifier(other)
                     = get_client_identifier(response.request)
               /\ other.path # response.request.path)
                  => KeyOf(other) # KeyOf(response.request)
    /\ [][Asked =>
            \A other \in Metered :
                LET key == KeyOf(other)
                IN  key # response'.key =>
                        /\ Recorded(limiter', key) = Recorded(limiter, key)
                        /\ Verdict(limiter', other) = Verdict(limiter, other)
         ]_vars

\* C29 witness: a client whose quota on one path is used up, so that its
\* next request there would be limited, has just been admitted on another
\* path.
C29_Witness ==
    /\ response.checked
    /\ ~response.limited
    /\ response.info.remaining = ConfigOf(response.request).requests - 1
    /\ \E other \in Metered :
          /\ other.path # response.request.path
          /\ get_client_identifier(other)
                = get_client_identifier(response.request)
          /\ Verdict(limiter, other)[1]

\* C30: the breaker is asked once per execute call, before the retry loop.
\* Only a call that is starting is rejected, and no step inside a call
\* moves the breaker from Open to HalfOpen or counts a half-open call; a
\* call that was admitted runs all its attempts even when the breaker
\* opens under it, so it raises only after max_retries + 1 invocations of
\* func; and a call that starts while the breaker is Open and the
\* recovery timeout has not passed is rejected, the breaker untouched.
C30_GateOnce ==
    /\ [] \A t \in Threads :
            /\ calls[t].outcome = "raised" =>
                  calls[t].work = config.max_retries + 1
            /\ calls[t].outcome = "rejected" => calls[t].work = 0
    /\ [][\A t \in Threads :
            /\ (pc'[t] = "reject" /\ pc[t] # "reject") => pc[t] = "idle"
            /\ (pc[t] # "idle" /\ pc'[t] # pc[t]) =>
                  /\ ~(circuit_breaker.state = OPEN
                          /\ circuit_breaker'.state = HALF_OPEN)
                  /\ circuit_breaker'.half_open_calls
                        <= circuit_breaker.half_open_calls
            /\ (/\ pc[t] = "idle" /\ pc'[t] # "idle"
                /\ circuit_breaker.state = OPEN
                /\ now - circuit_breaker.last_failure_time
                      < config.recovery_timeout) =>
                  /\ pc'[t] = "reject"
                  /\ circuit_breaker' = circuit_breaker
         ]_vars

\* C30 witness: the first call failed failure_threshold times, opening the
\* breaker, and went on to invoke func a further time with the breaker
\* Open; the second call, made before the recovery timeout, has been
\* rejected.
C30_Witness ==
    /\ calls[1].executes = 2
    /\ calls[1].outcome = "rejected"
    /\ circuit_breaker.state = OPEN
    /\ stats.circuit_breaker_rejections = 1
    /\ stats.total_requests > config.failure_threshold
    /\ stats.failed_requests >= config.failure_threshold

\* C31: a loop iteration of execute whose consume(1) is refused before and
\* after the rate-limit sleep counts against the retry budget: it advances
\* retry_count without invoking func, so one call goes round the loop at
\* most max_retries + 1 times, invocations and refused iterations together.
C31_RefusalCounts ==
    \A t \in Threads :
        /\ frame[t].retry_count >= calls[t].refusals
        /\ calls[t].work + calls[t].refusals <= config.max_retries + 1

\* C32: a record_failure() on an Open breaker keeps it Open and sets
\* last_failure_time to now, so that from then on call_allowed() returns
\* true exactly from that failure's time + recovery_timeout.
C32_FailureWhileOpen ==
    [][(/\ circuit_breaker.state = OPEN
        /\ circuit_breaker'.failure_count
              = circuit_breaker.failure_count + 1) =>
          /\ circuit_breaker'.state = OPEN
          /\ circuit_breaker'.last_failure_time = now
          /\ circuit_breaker'.half_open_calls
                = circuit_breaker.half_open_calls
          /\ \A t \in now..(now + MaxRecovery + 1) :
                call_allowed(circuit_breaker', config, t).ret
                    <=> t >= now + config.recovery_timeout
      ]_vars

\* C32 witness: a failure has just been recorded on a breaker that was Open
\* and whose recovery timeout had already passed; the breaker is Open and
\* refuses calls again.
C32_Witness ==
    /\ driver.op = "record_failure"
    /\ driver.at = now
    /\ driver.cb.state = OPEN
    /\ config.recovery_timeout > 0
    /\ now - driver.cb.last_failure_time >= config.recovery_timeout
    /\ circuit_breaker.state = OPEN
    /\ ~call_allowed(circuit_breaker, config, now).ret

\* ------------------------------------------------- the backoff schedule
\* One thread makes one call after the other; the clock moves while it is
\* idle or asleep.
NextBackoff ==
    \/ GateTick
    \/ Call(MaxExecutes)
    \/ Steps

InitBackoff == Boot(BackoffConfigs)

SpecBackoff == InitBackoff /\ [][NextBackoff]_vars

RECURSIVE Pow(_, _)
Pow(b, e) == IF e = 0 THEN 1 ELSE b * Pow(b, e - 1)

\* The backoff variable at the k-th backoff sleep of a call.
BackoffAt(k) == config.initial_backoff * Pow(config.backoff_multiplier, k - 1)

\* C33: a call whose func always fails sleeps max_retries times between
\* its attempts and not after the last one; its k-th backoff sleep is
\* min(initial_backoff * backoff_multiplier^(k-1), max_backoff) long, the
\* backoff variable itself growing without the cap.
C33_BackoffSchedule ==
    /\ [] \A t \in Threads :
            /\ pc[t] = "backoff" =>
                  /\ calls[t].backoffs = frame[t].retry_count
                  /\ calls[t].backoffs \in 1..config.max_retries
                  /\ frame[t].backoff = BackoffAt(calls[t].backoffs)
                  /\ (ENABLED Backoff(t)) <=>
                        now - frame[t].slept_from
                           >= Min(BackoffAt(calls[t].backoffs),
                                  config.max_backoff)
            /\ pc[t] \notin {"idle", "backoff", "reject"} =>
                  frame[t].backoff = BackoffAt(calls[t].backoffs + 1)
            /\ calls[t].outcome = "raised" =>
                  calls[t].backoffs = config.max_retries
    /\ [][\A t \in Threads :
            /\ (pc[t] = "failure" /\ pc'[t] # "failure") =>
                  (pc'[t] = "backoff"
                      <=> frame[t].retry_count <= config.max_retries)
            /\ (pc'[t] = "backoff" /\ pc[t] # "backoff") =>
                  /\ pc[t] = "failure"
                  /\ frame'[t].slept_from = now
            /\ (pc[t] = "backoff" /\ pc'[t] # "backoff") =>
                  /\ now - frame[t].slept_from
                        >= Min(BackoffAt(calls[t].backoffs),
                               config.max_backoff)
                  /\ frame'[t].backoff
                        = frame[t].backoff * config.backoff_multiplier
         ]_vars

\* C33 witness: a call with three retries and a doubling backoff has
\* raised after its fourth failure and three sleeps, the third one cut to
\* max_backoff, in the shortest time the sleeps allow.
C33_Witness ==
    /\ calls[1].executes = 1
    /\ calls[1].outcome = "raised"
    /\ calls[1].backoffs = 3
    /\ calls[1].work = 4
    /\ BackoffAt(3) > config.max_backoff
    /\ now = 1 + 2 + config.max_backoff

\* ------------------------------------------------------- lock by lock
\* The lock taken by the `with` block a thread at position p of execute
\* comes to next: call_allowed, record_success and record_failure take the
\* breaker's lock, consume the bucket's, the statistics updates the stats
\* lock; "" where the next thing is a backoff sleep.
LockAt(p) ==
    IF p \in {"idle", "success", "failure"} THEN "circuit_breaker"
    ELSE IF p \in {"loop", "sleep"} THEN "token_bucket"
    ELSE IF p \in {"reject", "limited", "request", "work"} THEN "stats"
    ELSE ""

\* The locks thread t holds.
Held(t) == { l \in Locks : locks[l].by = t }

\* Thread t has come to a `with` block: it begins a call, its loop test
\* passed, its rate-limit sleep has returned, or it is between two blocks.
Ready(t) ==
    IF pc[t] = "idle"
    THEN Started < MaxExecutes /\ \A u \in Threads : u < t => pc[u] # "idle"
    ELSE IF pc[t] = "loop" THEN frame[t].retry_count <= config.max_retries
    ELSE IF pc[t] = "sleep"
    THEN SleepOver(frame[t].slept_from, frame[t].needed, token_bucket.rate,
                   now)
    ELSE pc[t] # "backoff"

\* Enter that takes the bucket's lock before the rate-limit sleep.
EnterEarly(t) ==
    /\ Held(t) = {}
    /\ Ready(t) \/ pc[t] = "sleep"
    /\ locks[LockAt(pc[t])].by = 0
    /\ locks' = [locks EXCEPT ![LockAt(pc[t])] =
                                  [ by |-> t, at |-> pc[t], stamp |-> 0 ]]
    /\ UNCHANGED << web, config, now, token_bucket, circuit_breaker, stats,
                    pc, frame, calls, totals, breaker_log, driver >>

\* `with lock:` of thread t: it takes the lock once nobody holds it.
Enter(t) ==
    /\ Held(t) = {}
    /\ Ready(t)
    /\ locks[LockAt(pc[t])].by = 0
    /\ locks' = [locks EXCEPT ![LockAt(pc[t])] =
                                  [ by |-> t, at |-> pc[t], stamp |-> 0 ]]
    /\ UNCHANGED << web, config, now, token_bucket, circuit_breaker, stats,
                    pc, frame, calls, totals, breaker_log, driver >>

\* Thread t is inside the `with` block it has come to.
Inside(t) ==
    /\ LockAt(pc[t]) \in Locks
    /\ locks[LockAt(pc[t])] = [ by |-> t, at |-> pc[t], stamp |-> 0 ]

\* The end of a `with` block of thread t, its body done: the lock is
\* released.
Leave(t) ==
    /\ \E l \in Held(t) :
          /\ locks[l].at # pc[t]
          /\ locks' = [locks EXCEPT ![l] = Free]
    /\ UNCHANGED << web, config, now, token_bucket, circuit_breaker, stats,
                    pc, frame, calls, totals, breaker_log, driver >>

\* `with self.lock:` of get_stats() or reset_stats(), called from outside.
OpsEnter(op) ==
    /\ Held(Other) = {}
    /\ locks["stats"].by = 0
    /\ op = "reset_stats" => totals.resets < MaxResets
    /\ locks' = [locks EXCEPT !["stats"] =
                    [ by |-> Other, at |-> op, stamp |-> totals.resets ]]
    /\ UNCHANGED << web, config, now, token_bucket, circuit_breaker, stats,
                    pc, frame, calls, totals, breaker_log, driver >>

\* The bodies of get_stats() and reset_stats(), under the stats lock.
OpsGetStats ==
    /\ locks["stats"].by = Other
    /\ locks["stats"].at = "get_stats"
    /\ driver.op # "get_stats"
    /\ GetStats

OpsResetStats ==
    /\ locks["stats"].by = Other
    /\ locks["stats"].at = "reset_stats"
    /\ locks["stats"].stamp = totals.resets
    /\ ResetStats

\* get_stats() or reset_stats() returns, releasing the stats lock and
\* handing its result to the caller.
OpsLeave ==
    /\ locks["stats"].by = Other
    /\ \/ locks["stats"].at = "get_stats" /\ driver.op = "get_stats"
       \/ locks["stats"].at = "reset_stats"
             /\ locks["stats"].stamp # totals.resets
    /\ locks' = [locks EXCEPT !["stats"] = Free]
    /\ driver' = NewDriver
    /\ UNCHANGED << web, config, now, token_bucket, circuit_breaker, stats,
                    pc, frame, calls, totals, breaker_log >>

\* call_allowed() of the call thread t begins, the breaker's lock taken.
CallAllowed(t) ==
    /\ Begin(t)
    /\ UNCHANGED driver

\* Threads in execute and a thread calling get_stats() and reset_stats(),
\* every lock taken and released in a step of its own.
NextLocks ==
    \/ Tick
    \/ \E t \in Threads : Enter(t)
    \/ \E t \in Threads : Leave(t)
    \/ \E t \in Threads : Inside(t) /\ CallAllowed(t)
    \/ \E t \in Threads : Inside(t) /\ Reject(t)
    \/ \E t \in Threads : Inside(t) /\ Consume(t)
    \/ \E t \in Threads : Inside(t) /\ Limited(t)
    \/ \E t \in Threads : Inside(t) /\ ConsumeAgain(t)
    \/ \E t \in Threads : Inside(t) /\ Request(t)
    \/ \E t \in Threads : Inside(t) /\ WorkReturns(t)
    \/ \E t \in Threads : Inside(t) /\ WorkRaises(t)
    \/ \E t \in Threads : Inside(t) /\ RecordSuccess(t)
    \/ \E t \in Threads : Inside(t) /\ RecordFailure(t)
    \/ \E t \in Threads : Held(t) = {} /\ Backoff(t)
    \/ \E t \in Threads : Held(t) = {} /\ Exhausted(t)
    \/ \E op \in {"get_stats", "reset_stats"} : OpsEnter(op)
    \/ OpsGetStats
    \/ OpsResetStats
    \/ OpsLeave

\* A limiter whose bucket refuses the second caller and whose breaker opens
\* at the second failure.
LockConfigs == { DefaultConfig }

InitLocks == Boot(LockConfigs)

SpecLocks == InitLocks /\ [][NextLocks]_vars

\* What a thread that holds a lock does next: the body of its `with` block,
\* or the release at the block's end.
HolderStep(t) ==
    \/ Leave(t)
    \/ Inside(t) /\ CallAllowed(t)
    \/ Inside(t) /\ Reject(t)
    \/ Inside(t) /\ Consume(t)
    \/ Inside(t) /\ Limited(t)
    \/ Inside(t) /\ ConsumeAgain(t)
    \/ Inside(t) /\ Request(t)
    \/ Inside(t) /\ WorkReturns(t)
    \/ Inside(t) /\ WorkRaises(t)
    \/ Inside(t) /\ RecordSuccess(t)
    \/ Inside(t) /\ RecordFailure(t)

\* What the caller of get_stats() or reset_stats() does next while it holds
\* the stats lock.
OpsProceed == OpsGetStats \/ OpsResetStats \/ OpsLeave

\* Thread t is in time.sleep(): only the clock lets it go on.
Asleep(t) ==
    /\ Held(t) = {}
    /\ \/ pc[t] = "sleep" /\ ~Ready(t)
       \/ pc[t] = "backoff" /\ ~ENABLED Backoff(t)

\* Thread t waits for a lock that another caller holds.
Waiting(t) ==
    /\ Held(t) = {}
    /\ LockAt(pc[t]) \in Locks
    /\ Ready(t)
    /\ locks[LockAt(pc[t])].by \notin {0, t}

\* C34: no thread holds two of the three locks at once; a thread that holds
\* a lock is neither asleep nor running work(): its next step, the body of
\* the `with` block or the release, needs neither the clock nor another lock;
\* hence no deadlock: every thread in a call can take a step, is asleep, or
\* waits for a lock whose holder can take a step, and get_stats() and
\* reset_stats() get the stats lock as soon as its holder has released it.
C34_LockDiscipline ==
    /\ \A t \in Threads \cup {Other} : Cardinality(Held(t)) <= 1
    /\ \A l \in Locks :
          /\ locks[l].by \in Threads
                => /\ ENABLED HolderStep(locks[l].by)
                   /\ ~Asleep(locks[l].by)
                   /\ l = LockAt(locks[l].at)
          /\ locks[l].by = Other => l = "stats" /\ ENABLED OpsProceed
    /\ \A t \in Threads :
          pc[t] # "idle"
             => \/ ENABLED Enter(t)
                \/ ENABLED HolderStep(t)
                \/ ENABLED (Held(t) = {} /\ (Backoff(t) \/ Exhausted(t)))
                \/ Asleep(t)
                \/ Waiting(t)
    /\ locks["stats"].by = 0
          => \A op \in {"get_stats", "reset_stats"} :
                totals.resets < MaxResets => ENABLED OpsEnter(op)

\* reset_stats() holds the stats lock while one thread, back from work(),
\* waits for it and the other thread is inside consume().
C34_Witness ==
    /\ locks["stats"].by = Other
    /\ locks["stats"].at = "reset_stats"
    /\ \E t, u \in Threads :
          /\ pc[t] = "work"
          /\ Waiting(t)
          /\ locks["token_bucket"].by = u
          /\ pc[u] = "loop"

\* C35: whatever call_allowed(), record_success() and record_failure() calls
\* were made, half_open_calls is at most half_open_max_calls, an Open
\* breaker has a last_failure_time, and a step that takes the breaker into
\* Closed leaves failure_count at 0.
C35_BreakerInvariants ==
    /\ [](circuit_breaker.half_open_calls <= config.half_open_max_calls)
    /\ [](circuit_breaker.state = OPEN
             => circuit_breaker.last_failure_time # None)
    /\ [][(circuit_breaker.state # CLOSED
              /\ circuit_breaker'.state = CLOSED)
             => circuit_breaker'.failure_count = 0]_vars

\* C35 witness: record_success() has just closed a Half-Open breaker that
\* had admitted all its half_open_max_calls trial calls and still carried
\* the failures that opened it.
C35_Witness ==
    /\ driver.op = "record_success"
    /\ driver.cb.state = HALF_OPEN
    /\ config.half_open_max_calls = MaxHalfOpenCalls
    /\ driver.cb.half_open_calls = config.half_open_max_calls
    /\ driver.cb.failure_count >= config.failure_threshold
    /\ driver.cb.last_failure_time # None
    /\ circuit_breaker.state = CLOSED
    /\ circuit_breaker.failure_count = 0

\* C38: whatever call_allowed(), record_success() and record_failure() calls
\* were made, a Closed breaker's failure_count is below failure_threshold.
C38_ClosedBelowThreshold ==
    circuit_breaker.state = CLOSED
        => circuit_breaker.failure_count < config.failure_threshold

\* C38 witness: a Closed breaker one failure short of the largest threshold,
\* its latest failure just recorded.
C38_Witness ==
    /\ driver.op = "record_failure"
    /\ driver.cb.state = CLOSED
    /\ circuit_breaker.state = CLOSED
    /\ config.failure_threshold = MaxThreshold
    /\ circuit_breaker.failure_count = config.failure_threshold - 1
    /\ circuit_breaker.last_failure_time = now

\* C36: in every reachable state, and in every dictionary get_stats()
\* returns, total_retry_attempts equals failed_requests, with threads in
\* execute and reset_stats() called meanwhile.
C36_RetriesEqualFailures ==
    /\ stats.total_retry_attempts = stats.failed_requests
    /\ driver.op = "get_stats"
          => driver.stats.total_retry_attempts = driver.stats.failed_requests

\* C36 witness: get_stats() returns two failures while a thread stands
\* between its failure count and record_failure() and the other thread is
\* in a call too.
C36_Witness ==
    /\ driver.op = "get_stats"
    /\ driver.stats.failed_requests = 2
    /\ driver.stats.total_retry_attempts = 2
    /\ \E t, u \in Threads :
          /\ t # u
          /\ pc[t] = "failure"
          /\ Held(t) = {}
          /\ pc[u] # "idle"

\* C37: in every reachable state, and in every dictionary get_stats()
\* returns, successful_requests + failed_requests is at most
\* total_requests, reset_stats() running between a call's total_requests
\* increment and its success or failure increment included.
C37_OutcomesWithinTotal ==
    /\ stats.successful_requests + stats.failed_requests
          <= stats.total_requests
    /\ driver.op = "get_stats"
          => driver.stats.successful_requests + driver.stats.failed_requests
                <= driver.stats.total_requests

\* ------------------------------------------- a success that comes late
\* Two threads and up to MaxLateCalls calls: a call whose func is still
\* running while the other thread's failures open the breaker reports its
\* success to an Open breaker, and a further call follows.
LateConfigs ==
    { [ DefaultConfig EXCEPT !.burst_size = 2, !.max_retries = m,
                             !.failure_threshold = f,
                             !.recovery_timeout = rt ] :
        m \in {0, MaxRetries}, f \in Thresholds, rt \in 1..MaxRecovery }

ExecuteLate(t) ==
    /\ Started < MaxLateCalls
    /\ \A u \in Threads : u < t => pc[u] # "idle"
    /\ Begin(t)
    /\ UNCHANGED driver

NextLate ==
    \/ Tick
    \/ \E t \in Threads : ExecuteLate(t)
    \/ \E t \in Threads : Reject(t)
    \/ \E t \in Threads : Consume(t)
    \/ \E t \in Threads : Limited(t)
    \/ \E t \in Threads : ConsumeAgain(t)
    \/ \E t \in Threads : Request(t)
    \/ \E t \in Threads : WorkReturns(t)
    \/ \E t \in Threads : WorkRaises(t)
    \/ \E t \in Threads : RecordSuccess(t)
    \/ \E t \in Threads : RecordFailure(t)
    \/ \E t \in Threads : Backoff(t)
    \/ \E t \in Threads : Exhausted(t)

InitLate == Boot(LateConfigs)

SpecLate == InitLate /\ [][NextLate]_vars

\* C39: a record_success() that finds the breaker Open leaves it Open and
\* changes nothing but failure_count, which becomes 0; an execute that
\* begins after it, before recovery_timeout has passed since the last
\* failure, is rejected, the breaker as it was.
C39_SuccessWhileOpen ==
    /\ [][\A t \in Threads :
             (/\ pc[t] = "success"
              /\ pc'[t] = "idle"
              /\ circuit_breaker.state = OPEN)
                => circuit_breaker'
                      = [circuit_breaker EXCEPT !.failure_count = 0]]_vars
    /\ [][\A t \in Threads :
             (/\ pc[t] = "idle"
              /\ pc'[t] # "idle"
              /\ circuit_breaker.state = OPEN
              /\ circuit_breaker.failure_count = 0
              /\ now - circuit_breaker.last_failure_time
                    < config.recovery_timeout)
                => /\ pc'[t] = "reject"
                   /\ circuit_breaker' = circuit_breaker]_vars

\* C39 witness: the third call has been rejected by a breaker that is Open
\* with failure_count 0: a success was recorded after the failures that
\* opened it, and the recovery timeout has not passed.
C39_Witness ==
    \E t \in Threads :
        /\ Started = MaxLateCalls
        /\ pc[t] = "reject"
        /\ circuit_breaker.state = OPEN
        /\ circuit_breaker.failure_count = 0
        /\ breaker_log.consecutive = 0
        /\ now > circuit_breaker.last_failure_time
        /\ now - circuit_breaker.last_failure_time < config.recovery_timeout


====
